---- MODULE Spec2Model ----
(***************************************************************************)
(* Model of the Excel workbook widget: the parse / serialize contract      *)
(* between the host's JSON attribute and the in-memory sheet model, and    *)
(* the debounced auto-save state machine, in its two variants:             *)
(*   "multi"  : useWorkbookState + useAutoSave + WorkbookContainer         *)
(*              (an array of sheets in one attribute, sheetsJson)          *)
(*   "single" : the single-sheet WorkbookContainer (one sheet per widget,  *)
(*              attribute sheetJson, re-parsed when sheetId changes)       *)
(*                                                                         *)
(* One step of the model is one task of the UI event loop: an event        *)
(* handler or a timer callback, followed by the re-render it causes and    *)
(* the effects of that render.                                             *)
(***************************************************************************)
EXTENDS Integers, Sequences, FiniteSets, TLC

\* ------------------------------------------------------------------------
\*  Bounds of the model
\* ------------------------------------------------------------------------

\* how many times the in-memory model may be replaced by a user edit
MaxEdits == 2
\* how many host-driven re-renders (attribute refresh, action or sheetId change)
MaxHostEvents == 2
\* the raw grids handed to the parsers have at most this many rows, each of
\* at most this many cells
MaxRawRows == 2
MaxRawCols == 2
\* the length of the sequences of addSheet and deleteSheet calls
MaxOps == 3

\* ------------------------------------------------------------------------
\*  Program constants
\* ------------------------------------------------------------------------

MIN_ROWS == 50
MIN_COLS == 26
\* default of the rowCount prop of the single-sheet widget
DEFAULT_ROW_COUNT == 50

\* ------------------------------------------------------------------------
\*  JavaScript / JSON values
\*
\*  A cell of a grid is a string: the two sentinels below stand for the
\*  JavaScript values null and undefined, any other string is itself.
\*  Every other JSON value is a record tagged with its type in field t.
\*  A JSON text (the string held by the host attribute) is a record with
\*  field kind: "blank" (empty or whitespace only), "invalid" (not JSON),
\*  or "json" with the value it parses to.
\* ------------------------------------------------------------------------

Null      == "~null"
Undefined == "~undefined"

JNull     == [t |-> "null"]
JUndef    == [t |-> "undefined"]
JStr(s)   == [t |-> "str",  v |-> s]
JNum(n)   == [t |-> "num",  v |-> n]
JBool(b)  == [t |-> "bool", v |-> b]
JArr(a)   == [t |-> "arr",  v |-> a]
JObj(o)   == [t |-> "obj",  v |-> o]

BlankText    == [kind |-> "blank"]
InvalidText  == [kind |-> "invalid"]
\* an argument that is no string (a number, an object) where a text is expected
NonStringText == [kind |-> "nonstring"]
\* JSON.stringify of a value: the text that JSON.parse maps back to it
Stringify(v) == [kind |-> "json", val |-> v]
\* the prop value when the attribute is absent or not available
NoValue      == [kind |-> "undefined"]

\* raw.f of a parsed JSON value (undefined when raw has no such property)
Field(raw, f) ==
    IF raw.t = "obj" /\ f \in DOMAIN raw.v THEN raw.v[f] ELSE JUndef

\* a ?? d
Coalesce(a, d) == IF a.t \in {"null", "undefined"} THEN d ELSE a

IsArray(x) == x.t = "arr"

\* the literal []
EmptyArr == JArr(<<>>)
\* the literal {}
EmptyObj == JObj(<<>>)

\* ------------------------------------------------------------------------
\*  Grids
\* ------------------------------------------------------------------------

\* Array(n).fill(null)
NullRow(n) == [c \in 1..n |-> Null]

EMPTY_SHEET_DATA == [r \in 1..MIN_ROWS |-> NullRow(MIN_COLS)]

isEmpty(v) == v = Null \/ v = Undefined \/ v = ""

Max(a, b) == IF a >= b THEN a ELSE b
Min(a, b) == IF a <= b THEN a ELSE b

\* length of a raw row: r.length when r is an array, else 0
RawRowLen(r) == IF IsArray(r) THEN Len(r.v) ELSE 0

RECURSIVE MaxRawRowLen(_, _)
MaxRawRowLen(rows, acc) ==
    IF rows = <<>> THEN acc
    ELSE MaxRawRowLen(Tail(rows), Max(acc, RawRowLen(Head(rows))))

\* PadRow that returns a short array row as it is
PadRow_NoPad(row, maxCols) ==
    IF ~IsArray(row) THEN NullRow(maxCols) ELSE row.v

PadRow(row, maxCols) ==
    IF ~IsArray(row) THEN NullRow(maxCols)
    ELSE IF Len(row.v) >= maxCols THEN row.v
    ELSE row.v \o NullRow(maxCols - Len(row.v))

\* normaliseData(raw, rowCount) of the single-sheet dataService; the
\* multi-sheet one is the same code with rowCount = MIN_ROWS
normaliseDataN(raw, rowCount) ==
    IF ~IsArray(raw) \/ Len(raw.v) = 0
    THEN [r \in 1..rowCount |-> NullRow(MIN_COLS)]
    ELSE LET maxCols == MaxRawRowLen(raw.v, MIN_COLS)
             padded  == [i \in 1..Len(raw.v) |-> PadRow(raw.v[i], maxCols)]
         IN  IF Len(padded) < rowCount
             THEN padded \o [r \in 1..(rowCount - Len(padded)) |-> NullRow(maxCols)]
             ELSE padded

normaliseData(raw) == normaliseDataN(raw, MIN_ROWS)

RowAllEmpty(row) == \A c \in 1..Len(row) : isEmpty(row[c])

\* rows.pop() while more than one row is left and the last one is empty
RECURSIVE PopEmptyRows(_)
PopEmptyRows(rows) ==
    IF Len(rows) > 1 /\ RowAllEmpty(rows[Len(rows)])
    THEN PopEmptyRows(SubSeq(rows, 1, Len(rows) - 1))
    ELSE rows

\* zero-based index of the last non-empty cell of a row, -1 when there is none
RECURSIVE LastUsedCol(_, _)
LastUsedCol(row, c) ==
    IF c < 1 THEN -1
    ELSE IF ~isEmpty(row[c]) THEN c - 1
    ELSE LastUsedCol(row, c - 1)

\* maxUsedCol after rows.forEach: it starts at 0 and is raised to the last
\* used index of every row that has a larger one
MaxUsedCol(rows) ==
    LET found == {0} \cup {LastUsedCol(rows[i], Len(rows[i])) : i \in 1..Len(rows)}
    IN  CHOOSE m \in found : \A k \in found : k <= m

\* a slice that cuts one cell too many
Slice_OneShort(row, n) == SubSeq(row, 1, Min(n - 1, Len(row)))

\* row.slice(0, n)
Slice(row, n) == SubSeq(row, 1, Min(n, Len(row)))

\* trimData(data) for an in-memory grid (an array of arrays)
trimData(data) ==
    IF Len(data) = 0 THEN << <<>> >>
    ELSE LET rows       == PopEmptyRows(data)
             maxUsedCol == MaxUsedCol(rows)
         IN  [i \in 1..Len(rows) |-> Slice(rows[i], maxUsedCol + 1)]

\* JSON.stringify of a grid: undefined cells are written as null
CellToJson(v)    == IF v = Undefined THEN Null ELSE v
GridToJson(data) ==
    JArr([i \in 1..Len(data) |->
            JArr([c \in 1..Len(data[i]) |-> CellToJson(data[i][c])])])

\* ------------------------------------------------------------------------
\*  Multi-sheet dataService: parseSheets / serializeSheets
\* ------------------------------------------------------------------------

\* x && typeof x === "object"
IsObjectLike(x) == x.t \in {"obj", "arr"}

DEFAULT_SHEET ==
    [sheetId |-> JStr(""), sheetName |-> JStr("Sheet"), orderIndex |-> 0,
     isEditable |-> FALSE, data |-> <<>>, columns |-> EmptyArr,
     cellMeta |-> EmptyObj, colWidths |-> EmptyArr,
     rowHeights |-> EmptyArr, mergedCells |-> EmptyArr]

buildEmptySheet(sheetId, sheetName, orderIndex) ==
    [DEFAULT_SHEET EXCEPT !.sheetId = sheetId, !.sheetName = sheetName,
                          !.orderIndex = orderIndex, !.data = EMPTY_SHEET_DATA]

\* index is the zero-based position of raw in the parsed array
normaliseSheet(raw, index) ==
    IF ~IsObjectLike(raw)
    THEN buildEmptySheet(JStr("sheet-" \o ToString(index)),
                         JStr("Sheet" \o ToString(index + 1)), index)
    ELSE [sheetId     |-> Coalesce(Field(raw, "sheetId"),
                                   JStr("sheet-" \o ToString(index))),
          sheetName   |-> Coalesce(Field(raw, "sheetName"),
                                   JStr("Sheet" \o ToString(index + 1))),
          orderIndex  |-> IF Field(raw, "orderIndex").t = "num"
                          THEN Field(raw, "orderIndex").v ELSE index,
          isEditable  |-> (Field(raw, "isEditable").t = "bool"
                           /\ Field(raw, "isEditable").v = TRUE),
          data        |-> normaliseData(Field(raw, "data")),
          cellMeta    |-> IF IsObjectLike(Field(raw, "cellMeta"))
                          THEN Field(raw, "cellMeta") ELSE EmptyObj,
          colWidths   |-> IF IsArray(Field(raw, "colWidths"))
                          THEN Field(raw, "colWidths") ELSE EmptyArr,
          rowHeights  |-> IF IsArray(Field(raw, "rowHeights"))
                          THEN Field(raw, "rowHeights") ELSE EmptyArr,
          mergedCells |-> IF IsArray(Field(raw, "mergedCells"))
                          THEN Field(raw, "mergedCells") ELSE EmptyArr]

\* insert s after the last element whose orderIndex is <= s.orderIndex
RECURSIVE InsertByOrder(_, _)
InsertByOrder(sorted, s) ==
    IF sorted = <<>> THEN <<s>>
    ELSE IF sorted[Len(sorted)].orderIndex <= s.orderIndex
         THEN Append(sorted, s)
         ELSE Append(InsertByOrder(SubSeq(sorted, 1, Len(sorted) - 1), s),
                     sorted[Len(sorted)])

\* Array.prototype.sort with (a, b) => a.orderIndex - b.orderIndex (stable)
RECURSIVE SortByOrderIndex(_)
SortByOrderIndex(seq) ==
    IF seq = <<>> THEN <<>>
    ELSE InsertByOrder(SortByOrderIndex(SubSeq(seq, 1, Len(seq) - 1)),
                       seq[Len(seq)])

\* jsonString is the prop value: NoValue, or a JSON text
parseSheets(jsonString) ==
    IF jsonString.kind \in {"undefined", "nonstring", "blank"} THEN <<>>
    ELSE IF jsonString.kind = "invalid" THEN <<>>
    ELSE IF ~IsArray(jsonString.val) THEN <<>>
    ELSE LET rawSheets == jsonString.val.v
         IN  SortByOrderIndex(
                 [i \in 1..Len(rawSheets) |-> normaliseSheet(rawSheets[i], i - 1)])

serializeSheetObj(sheet) ==
    JObj([sheetId     |-> sheet.sheetId,
          sheetName   |-> sheet.sheetName,
          orderIndex  |-> JNum(sheet.orderIndex),
          isEditable  |-> JBool(sheet.isEditable),
          data        |-> GridToJson(trimData(sheet.data)),
          cellMeta    |-> sheet.cellMeta,
          colWidths   |-> sheet.colWidths,
          rowHeights  |-> sheet.rowHeights,
          mergedCells |-> sheet.mergedCells])

serializeSheets(sheets) ==
    Stringify(JArr([i \in 1..Len(sheets) |-> serializeSheetObj(sheets[i])]))

updateSheetData(sheets, sheetId, newData) ==
    [i \in 1..Len(sheets) |->
        IF sheets[i].sheetId = sheetId
        THEN [sheets[i] EXCEPT !.data = newData]
        ELSE sheets[i]]

\* the number a sheet name of the form Sheet<digits> ends with, 0 for any
\* other name
SheetNumber(name) ==
    LET numbers == {n \in 1..(MaxEdits + MaxOps + 2) :
                       name = JStr("Sheet" \o ToString(n))}
    IN  IF numbers = {} THEN 0 ELSE CHOOSE n \in numbers : TRUE

\* addSheet(sheets); now is the value of Date.now()
addSheet(sheets, now) ==
    LET existingNumbers == {SheetNumber(sheets[i].sheetName) : i \in 1..Len(sheets)} \ {0}
        nextNumber == IF existingNumbers # {}
                      THEN (CHOOSE m \in existingNumbers :
                                \A k \in existingNumbers : k <= m) + 1
                      ELSE Len(sheets) + 1
    IN  Append(sheets,
               [sheetId     |-> JStr("sheet-" \o ToString(now)),
                sheetName   |-> JStr("Sheet" \o ToString(nextNumber)),
                orderIndex  |-> Len(sheets),
                isEditable  |-> TRUE,
                data        |-> EMPTY_SHEET_DATA,
                cellMeta    |-> EmptyObj,
                colWidths   |-> EmptyArr,
                rowHeights  |-> EmptyArr,
                mergedCells |-> EmptyArr])

\* sheets.filter(s => s.sheetId !== sheetId)
RECURSIVE WithoutSheet(_, _)
WithoutSheet(sheets, sheetId) ==
    IF sheets = <<>> THEN <<>>
    ELSE IF Head(sheets).sheetId = sheetId THEN WithoutSheet(Tail(sheets), sheetId)
    ELSE <<Head(sheets)>> \o WithoutSheet(Tail(sheets), sheetId)

deleteSheet(sheets, sheetId) ==
    LET kept == WithoutSheet(sheets, sheetId)
    IN  [i \in 1..Len(kept) |-> [kept[i] EXCEPT !.orderIndex = i - 1]]

\* the names typed into the rename box, and what String.prototype.trim makes
\* of them
TypedNames == {"Q", " Q ", "  "}
Trim(str) ==
    CASE str = " Q "      -> "Q"
      [] str = " u1 "     -> "u1"
      [] str \in {" ", "  "} -> ""
      [] OTHER            -> str

renameSheet(sheets, sheetId, newName) ==
    [i \in 1..Len(sheets) |->
        IF sheets[i].sheetId = sheetId
        THEN [sheets[i] EXCEPT !.sheetName = JStr(Trim(newName))]
        ELSE sheets[i]]

\* a ?? d for a string prop that may be absent
OrDefault(a, d) == IF a = Undefined THEN d ELSE a

\* canEditSheet that looks at the workbook-level lock alone
canEditSheet_AnyGrant(workbookIsReadOnly, sheetIsEditable) == ~workbookIsReadOnly

\* canEditCells of the single-sheet WorkbookContainer, as a truth value; the
\* arguments are the resolved props, Undefined for one that is not available
canEditCells(isAdmin, currentUserId, accessUserId, permissionType) ==
    LET currentUserValue == OrDefault(currentUserId, "")
        accessUserValue  == OrDefault(accessUserId, "")
        permissionValue  == OrDefault(permissionType, "View")
        isUserMatch      == /\ currentUserValue # ""
                            /\ accessUserValue # ""
                            /\ Trim(currentUserValue) = Trim(accessUserValue)
    IN  isAdmin \/ (isUserMatch /\ permissionValue = "Edit")

\* usePermissions(workbookIsReadOnly).canEditSheet that forgets the
\* workbook-level lock
canEditSheet_NoLock(workbookIsReadOnly, sheetIsEditable) == sheetIsEditable = TRUE

\* usePermissions(workbookIsReadOnly).canEditSheet(sheetIsEditable)
canEditSheet(workbookIsReadOnly, sheetIsEditable) ==
    IF workbookIsReadOnly THEN FALSE ELSE sheetIsEditable = TRUE

clampIndex(value, min, max) == Min(Max(value, min), max)

\* ------------------------------------------------------------------------
\*  Single-sheet dataService: parseSheetJson / serializeSheet
\* ------------------------------------------------------------------------

buildEmptySheetData(rowCount) ==
    [data        |-> [r \in 1..rowCount |-> NullRow(MIN_COLS)],
     columns     |-> EmptyArr,
     rowLabels   |-> <<>>,
     cellMeta    |-> EmptyObj,
     colWidths   |-> EmptyArr,
     rowHeights  |-> EmptyArr,
     mergedCells |-> EmptyArr]

\* String(l ?? "")
LabelToString(l) ==
    CASE l.t = "str"  -> l.v
      [] l.t = "num"  -> ToString(l.v)
      [] l.t = "bool" -> IF l.v THEN "true" ELSE "false"
      [] l.t \in {"null", "undefined"} -> ""
      [] l.t = "arr"  -> "<array>"
      [] OTHER        -> "[object Object]"

\* the value the call ends with when JSON.parse yields null: raw.data throws
ParseTypeError == [error |-> "TypeError"]

parseSheetJson(jsonString, rowCount) ==
    IF jsonString.kind \in {"undefined", "nonstring", "blank"}
    THEN buildEmptySheetData(rowCount)
    ELSE IF jsonString.kind = "invalid" THEN buildEmptySheetData(rowCount)
    ELSE LET raw == jsonString.val
         IN  IF raw.t \in {"str", "num", "bool", "arr"}
             THEN buildEmptySheetData(rowCount)
             ELSE IF raw.t = "null" THEN ParseTypeError
             ELSE [data        |-> normaliseDataN(Field(raw, "data"), rowCount),
                   columns     |-> IF IsArray(Field(raw, "columns"))
                                   THEN Field(raw, "columns") ELSE EmptyArr,
                   rowLabels   |-> IF IsArray(Field(raw, "rowLabels"))
                                   THEN [i \in 1..Len(Field(raw, "rowLabels").v) |->
                                           LabelToString(Field(raw, "rowLabels").v[i])]
                                   ELSE <<>>,
                   cellMeta    |-> IF IsObjectLike(Field(raw, "cellMeta"))
                                   THEN Field(raw, "cellMeta") ELSE EmptyObj,
                   colWidths   |-> IF IsArray(Field(raw, "colWidths"))
                                   THEN Field(raw, "colWidths") ELSE EmptyArr,
                   rowHeights  |-> IF IsArray(Field(raw, "rowHeights"))
                                   THEN Field(raw, "rowHeights") ELSE EmptyArr,
                   mergedCells |-> IF IsArray(Field(raw, "mergedCells"))
                                   THEN Field(raw, "mergedCells") ELSE EmptyArr]

\* row labels written as they are
trimRowLabels_KeepAll(labels) == labels

\* rowLabels without the trailing empty labels
RECURSIVE trimRowLabels(_)
trimRowLabels(labels) ==
    IF Len(labels) > 0 /\ labels[Len(labels)] = ""
    THEN trimRowLabels(SubSeq(labels, 1, Len(labels) - 1))
    ELSE labels

serializeSheet(sheetData) ==
    Stringify(JObj(
        [data        |-> GridToJson(trimData(sheetData.data)),
         columns     |-> sheetData.columns,
         rowLabels   |-> JArr([i \in 1..Len(trimRowLabels(sheetData.rowLabels)) |->
                                 JStr(trimRowLabels(sheetData.rowLabels)[i])]),
         cellMeta    |-> sheetData.cellMeta,
         colWidths   |-> sheetData.colWidths,
         rowHeights  |-> sheetData.rowHeights,
         mergedCells |-> sheetData.mergedCells]))

\* ------------------------------------------------------------------------
\*  Host boundary (mendixBridge)
\* ------------------------------------------------------------------------

\* The attribute prop (sheetsJson / sheetJson) as handed to one render:
\*   status   "absent" (prop null), "loading", "unavailable" or "available"
\*   value    the JSON text, NoValue unless available
\*   setValue "ok", "throws", or "missing" (not a function: read-only source)
AbsentAttr     == [status |-> "absent",  value |-> NoValue, setValue |-> "missing"]
Loading(sv)    == [status |-> "loading", value |-> NoValue, setValue |-> sv]
Avail(v, sv)   == [status |-> "available", value |-> v, setValue |-> sv]

\* the onSheetChange prop: not wired, canExecute false, executes, or throws
ActionKinds == {"absent", "blocked", "ok", "throws"}

\* how the widget is wired to the host: the kind of setValue the attribute
\* has and the onSheetChange action it starts with
HostWirings == {<<"ok", "ok">>, <<"ok", "blocked">>, <<"ok", "absent">>,
                <<"ok", "throws">>, <<"throws", "ok">>, <<"missing", "ok">>}

resolveAttr(prop) == IF prop.status = "available" THEN prop.value ELSE NoValue

\* triggerSheetChange that goes on to the action after a write that failed
triggerSheetChange_GoesOn(sheetsJsonAttr, onSheetChange) ==
    IF sheetsJsonAttr.status = "absent"
       \/ sheetsJsonAttr.status # "available"
       \/ sheetsJsonAttr.setValue = "missing"
       \/ sheetsJsonAttr.setValue = "throws"
    THEN [wrote |-> FALSE, executed |-> onSheetChange \in {"ok", "throws"},
          success |-> onSheetChange = "ok"]
    ELSE IF onSheetChange \in {"absent", "blocked"}
    THEN [wrote |-> TRUE, executed |-> FALSE, success |-> FALSE]
    ELSE [wrote |-> TRUE, executed |-> TRUE, success |-> onSheetChange = "ok"]

\* triggerSheetChange that takes the write alone for a success when there is
\* no action to execute
triggerSheetChange_OptionalAction(sheetsJsonAttr, onSheetChange) ==
    IF sheetsJsonAttr.status = "absent"
       \/ sheetsJsonAttr.status # "available"
       \/ sheetsJsonAttr.setValue = "missing"
       \/ sheetsJsonAttr.setValue = "throws"
    THEN [wrote |-> FALSE, executed |-> FALSE, success |-> FALSE]
    ELSE IF onSheetChange \in {"absent", "blocked"}
    THEN [wrote |-> TRUE, executed |-> FALSE, success |-> TRUE]
    ELSE [wrote |-> TRUE, executed |-> TRUE, success |-> onSheetChange = "ok"]

\* triggerSheetChange(sheetsJsonAttr, serializedJson, onSheetChange):
\*   wrote    setValue was called and returned
\*   executed onSheetChange.execute was called
\*   success  the returned boolean
triggerSheetChange(sheetsJsonAttr, onSheetChange) ==
    IF sheetsJsonAttr.status = "absent"
       \/ sheetsJsonAttr.status # "available"
       \/ sheetsJsonAttr.setValue = "missing"
       \/ sheetsJsonAttr.setValue = "throws"
    THEN [wrote |-> FALSE, executed |-> FALSE, success |-> FALSE]
    ELSE IF onSheetChange \in {"absent", "blocked"}
    THEN [wrote |-> TRUE, executed |-> FALSE, success |-> FALSE]
    ELSE [wrote |-> TRUE, executed |-> TRUE, success |-> onSheetChange = "ok"]

\* ------------------------------------------------------------------------
\*  Documents the host may hold, and what a user may type
\* ------------------------------------------------------------------------

\* '[{"sheetId":"a","isEditable":true,"data":[["x"]]}]'
DocA == Stringify(JArr(<<
          JObj([sheetId |-> JStr("a"), isEditable |-> JBool(TRUE),
                data |-> JArr(<< JArr(<<"x">>) >>)]) >>))

\* two sheets stored out of order; the one shown first is editable, the
\* other is not
DocB == Stringify(JArr(<<
          JObj([sheetId |-> JStr("b"), sheetName |-> JStr("Sheet2"),
                orderIndex |-> JNum(1),
                data |-> JArr(<< JArr(<<"q", Null>>), JArr(<<Null, "r">>) >>)]),
          JObj([sheetId |-> JStr("a"), sheetName |-> JStr("Sheet1"),
                orderIndex |-> JNum(0), isEditable |-> JBool(TRUE),
                data |-> JArr(<< JArr(<<"x">>) >>)]) >>))

\* two sheets stored under one id, as two sheets added at one clock value are
DocTwins == Stringify(JArr(<<
              JObj([sheetId |-> JStr("a"), orderIndex |-> JNum(0)]),
              JObj([sheetId |-> JStr("a"), orderIndex |-> JNum(1)]) >>))

\* '{"data":[["x"]]}'
DocS1 == Stringify(JObj([data |-> JArr(<< JArr(<<"x">>) >>)]))

\* '{"data":[["p","q"]],"rowLabels":["R1",""]}'
DocS2 == Stringify(JObj([data |-> JArr(<< JArr(<<"p", "q">>) >>),
                         rowLabels |-> JArr(<< JStr("R1"), JStr("") >>)]))

HostDocs(v) == IF v = "multi" THEN {DocA, DocB, BlankText}
                              ELSE {DocS1, DocS2, BlankText}

\* the attribute props the host may hand over, given the value it stores and
\* the kind of setValue the attribute has
HostAttrs(v, stored, sv) ==
    {Loading(sv)} \cup {Avail(d, sv) : d \in HostDocs(v) \cup {stored}}

\* what a user may type: <<row, column, value>>, one-based
UserEdits == {<<2, 2, "y">>, <<1, 1, "">>}

\* hot.getData() after the user typed e[3] into cell (e[1], e[2]) of the grid
GridAfterEdit(data, e) == [data EXCEPT ![e[1]][e[2]] = e[3]]

\* SheetGrid: the rows handed to the grid (gridData), all of sheet.data or,
\* when row labels are configured, fullData.slice(0, rowLabels.length)
gridData(sheet) ==
    IF Len(sheet.rowLabels) > 0 THEN Slice(sheet.data, Len(sheet.rowLabels))
    ELSE sheet.data

SheetIds == {"s1", "s2"}

\* ------------------------------------------------------------------------
\*  State
\* ------------------------------------------------------------------------

VARIABLES
    variant,            \* "multi" or "single"
    phase,              \* "new", "mounted", "unmounted"
    attr,               \* the sheetsJson / sheetJson prop of the last render
    onSheetChange,      \* the onSheetChange prop of the last render
    sheetIdValue,       \* single: the resolved sheetId prop
    hostStore,          \* the value the host holds for the attribute
    sheets,             \* multi: useState sheets
    activeSheetIndex,   \* multi: useState activeSheetIndex
    lastLoadedJson,     \* multi: lastLoadedJsonRef.current (NoValue for null)
    hasPendingEdits,    \* multi: hasPendingEditsRef.current
    isInitialLoad,      \* multi: isInitialLoad.current
    sheetData,          \* single: useState sheetData
    isFirstLoad,        \* single: isFirstLoad.current
    savingStatus,       \* "idle", "saving", "saved"
    timers,             \* the scheduled timers that have neither fired nor been cleared
    debounceTimer,      \* debounceTimer.current: id of the last debounce timer, 0 for null
    savedTimer,         \* savedTimer.current
    timerSeq,           \* the last timer id handed out by setTimeout
    saveCleanup,        \* whether the auto-save effect's last run returned a cleanup
    edits,              \* number of user edits so far
    hostEvents,         \* number of host-driven re-renders so far
    dirty,              \* history: a user edit has not been written to the host yet
    burst,              \* history: user edits since the last firing of a debounce timer
    savedJson,          \* history: the text of the last fully successful write sequence
    hostOk,             \* history: every render so far had an available, writable
                        \*          attribute and an executable onSheetChange
    last,               \* history: what the last step did
    perm,               \* the permission props of the render: isAdmin, isReadOnly
    call                \* the last call of a data-service or permission function:
                        \* its name, its argument and what it returned

vars == <<variant, phase, attr, onSheetChange, sheetIdValue, hostStore, sheets,
          activeSheetIndex, lastLoadedJson, hasPendingEdits, isInitialLoad,
          sheetData, isFirstLoad, savingStatus, timers, debounceTimer,
          savedTimer, timerSeq, saveCleanup, edits, hostEvents, dirty, burst,
          savedJson, hostOk, last, perm, call>>

\* the state of the mounted widget
widgetVars == <<variant, phase, attr, onSheetChange, sheetIdValue, hostStore, sheets,
                activeSheetIndex, lastLoadedJson, hasPendingEdits, isInitialLoad,
                sheetData, isFirstLoad, savingStatus, timers, debounceTimer,
                savedTimer, timerSeq, saveCleanup, edits, hostEvents, dirty, burst,
                savedJson, hostOk, last>>

multiVars  == <<sheets, activeSheetIndex, lastLoadedJson, hasPendingEdits, isInitialLoad>>
singleVars == <<sheetData, isFirstLoad, sheetIdValue>>

NoSheetData == [data |-> <<>>]

\* what a step did: its name; for a timer firing, what performSave saw and did
\* (the attribute and action it closed over, the text it serialized, whether
\* setValue returned, whether execute was called, the boolean returned);
\* for a host event, whether the new value was parsed into the model
\* collapsed: the user edits the firing covers; cancelled: the timers an
\* unmount cleared
Op(name) == [op |-> name, attr |-> AbsentAttr, action |-> "absent", json |-> NoValue,
             wrote |-> FALSE, executed |-> FALSE, success |-> FALSE, loaded |-> FALSE,
             collapsed |-> 0, cancelled |-> 0]

\* no function has been called
NoCall == [fn |-> "none"]

\* the permission props under which cells can be edited by a plain user:
\* workbook not read-only, user not an administrator
WritableProps == [isAdmin |-> FALSE, isReadOnly |-> FALSE]

\* is this render's pair of props one a write sequence can fully succeed with ?
PropsOk(a, act) == a.status = "available" /\ a.setValue = "ok" /\ act = "ok"

\* clearTimeout(id): the timer with that id, if still scheduled, is dropped
clearTimeout(ts, id) == {t \in ts : t.id # id}

DebounceTimers == {t \in timers : t.kind = "debounce"}
SavedTimers    == {t \in timers : t.kind = "saved"}

Init ==
    /\ variant \in {"multi", "single"}
    /\ phase = "new"
    /\ hostStore = IF variant = "multi" THEN DocA ELSE DocS1
    /\ \E w \in HostWirings :
          /\ attr \in {Loading(w[1]), Avail(hostStore, w[1])}
                      \cup (IF variant = "single" /\ w = <<"missing", "ok">>
                            THEN {AbsentAttr} ELSE {})
          /\ onSheetChange = w[2]
    /\ sheetIdValue = IF variant = "single" THEN "s1" ELSE ""
    /\ sheets = <<>>
    /\ activeSheetIndex = 0
    /\ lastLoadedJson = NoValue
    /\ hasPendingEdits = FALSE
    /\ isInitialLoad = TRUE
    /\ sheetData = NoSheetData
    /\ isFirstLoad = TRUE
    /\ savingStatus = "idle"
    /\ timers = {}
    /\ debounceTimer = 0
    /\ savedTimer = 0
    /\ timerSeq = 0
    /\ saveCleanup = FALSE
    /\ edits = 0
    /\ hostEvents = 0
    /\ dirty = FALSE
    /\ burst = 0
    /\ savedJson = NoValue
    /\ hostOk = PropsOk(attr, onSheetChange)
    /\ last = Op("Init")
    /\ perm = WritableProps
    /\ call = NoCall

\* ------------------------------------------------------------------------
\*  Hooks: pieces shared by the actions
\* ------------------------------------------------------------------------

\* DebounceTimer whose callback saves the model of the render before
DebounceTimer_StaleModel(id, model, attrR, actionR) ==
    [id |-> id, kind |-> "debounce",
     model |-> IF variant = "multi" THEN sheets ELSE sheetData,
     attr |-> attrR, action |-> actionR]

\* a debounce timer: () => performSave(), with the values performSave closes
\* over in the render that scheduled it
DebounceTimer(id, model, attrR, actionR) ==
    [id |-> id, kind |-> "debounce", model |-> model, attr |-> attrR, action |-> actionR]

\* a saved-display timer: () => setSavingStatus("idle")
SavedTimer(id) ==
    [id |-> id, kind |-> "saved", model |-> <<>>, attr |-> AbsentAttr, action |-> "absent"]

\* the cleanup React runs before re-running the auto-save effect
\* (() => clearTimeout(debounceTimer.current), when the last run returned it)
RunSaveCleanup(ts) == IF saveCleanup THEN clearTimeout(ts, debounceTimer) ELSE ts

\* clearTimeout(debounceTimer.current); debounceTimer.current = setTimeout(...)
Reschedule(ts, id, newTimer) == clearTimeout(ts, id) \cup {newTimer}

\* the body of the auto-save effect past its early returns
StartSaveCycle(model, attrR, actionR) ==
    /\ savingStatus' = "saving"
    /\ timers' = Reschedule(RunSaveCleanup(timers), debounceTimer,
                            DebounceTimer(timerSeq + 1, model, attrR, actionR))
    /\ debounceTimer' = timerSeq + 1
    /\ timerSeq' = timerSeq + 1
    /\ saveCleanup' = TRUE

\* the auto-save effect returned early: only the previous cleanup has run
SkipSaveCycle ==
    /\ timers' = RunSaveCleanup(timers)
    /\ saveCleanup' = FALSE
    /\ UNCHANGED <<savingStatus, debounceTimer, timerSeq>>

\* useAutoSave: the two effects with dependency [sheets], run in source order
\* in the render where sheets = newSheets:
\*   1. mark first load done   2. the auto-save effect
isInitialLoadAfterMark(newSheets) ==
    IF Len(newSheets) > 0 /\ isInitialLoad THEN FALSE ELSE isInitialLoad

AutoSaveEffects(newSheets, attrR, actionR) ==
    /\ isInitialLoad' = isInitialLoadAfterMark(newSheets)
    /\ IF isInitialLoadAfterMark(newSheets) \/ Len(newSheets) = 0
       THEN SkipSaveCycle
       ELSE StartSaveCycle(newSheets, attrR, actionR)

\* ReloadAccepted without the pending-edits guard
ReloadAccepted_NoGuard(p) ==
    /\ p # NoValue
    /\ p # lastLoadedJson

\* useWorkbookState: does the effect on [sheetsJsonProp] parse the prop p ?
ReloadAccepted(p) ==
    /\ p # NoValue
    /\ p # lastLoadedJson
    /\ ~hasPendingEdits

\* useWorkbookState effect for prop value p, followed by the re-render and the
\* useAutoSave effects when it replaced sheets
WorkbookStateEffect(p, attrR, actionR) ==
    IF ReloadAccepted(p)
    THEN LET parsed == parseSheets(p)
         IN  /\ sheets' = parsed
             /\ activeSheetIndex' =
                    clampIndex(activeSheetIndex, 0, Max(0, Len(parsed) - 1))
             /\ lastLoadedJson' = p
             /\ AutoSaveEffects(parsed, attrR, actionR)
    ELSE UNCHANGED <<sheets, activeSheetIndex, lastLoadedJson, isInitialLoad,
                     savingStatus, timers, debounceTimer, timerSeq, saveCleanup>>

\* single-sheet: the auto-save effect on [sheetData]
SingleSaveEffect(firstLoad, newData, attrR, actionR) ==
    IF firstLoad
    THEN /\ isFirstLoad' = FALSE
         /\ SkipSaveCycle
    ELSE /\ isFirstLoad' = firstLoad
         /\ StartSaveCycle(newData, attrR, actionR)

\* performSave: the status it sets from the result of triggerSheetChange
StatusAfterSave(success) == IF success THEN "saved" ELSE "idle"

\* TimersAfterSave that never schedules the saved-display timer
TimersAfterSave_NoSavedTimer(ts, success, newId) ==
    IF success THEN clearTimeout(ts, savedTimer) ELSE ts

\* performSave on success: clearTimeout(savedTimer.current); savedTimer.current = setTimeout(...)
\* ts is the timer set without the debounce timer that is firing
TimersAfterSave(ts, success, newId) ==
    IF success THEN clearTimeout(ts, savedTimer) \cup {SavedTimer(newId)} ELSE ts

\* GuardAfterSave that clears the guard before looking at the result
GuardAfterSave_Always(success) == FALSE

\* performSave on success: clearPendingEdits()
GuardAfterSave(success) == IF success THEN FALSE ELSE hasPendingEdits

\* LastLoadedAfterSave that records the written text as the last loaded one
LastLoadedAfterSave_RecordsWritten(success, newJson) ==
    IF success THEN newJson ELSE lastLoadedJson

\* performSave on success: clearPendingEdits() also forgets the last loaded text
LastLoadedAfterSave(success, newJson) == IF success THEN NoValue ELSE lastLoadedJson

\* UnmountCleanup that forgets the saved-display timer
UnmountCleanup_DebounceOnly(ts) == clearTimeout(RunSaveCleanup(ts), debounceTimer)

\* the two unmount cleanups: the auto-save effect's and the [] effect's
UnmountCleanup(ts) ==
    clearTimeout(clearTimeout(RunSaveCleanup(ts), debounceTimer), savedTimer)

\* ------------------------------------------------------------------------
\*  Actions of the multi-sheet variant
\* ------------------------------------------------------------------------

\* first render (sheets = []), the effects of it, and the re-render after
\* setSheets(parsed); the useAutoSave effects of the first render see
\* sheets = [] with isInitialLoad set and do nothing
MultiMount ==
    /\ variant = "multi" /\ phase = "new"
    /\ phase' = "mounted"
    /\ WorkbookStateEffect(resolveAttr(attr), attr, onSheetChange)
    /\ last' = [Op("Mount") EXCEPT !.loaded = ReloadAccepted(resolveAttr(attr))]
    /\ UNCHANGED <<variant, attr, onSheetChange, hostStore, hasPendingEdits,
                   singleVars, savedTimer, edits, hostEvents, dirty, burst,
                   savedJson, hostOk>>
    /\ UNCHANGED <<perm, call>>

\* the host hands over a new attribute prop; the host may have changed the
\* stored value out of band
MultiHostRefresh ==
    /\ variant = "multi" /\ phase = "mounted"
    /\ hostEvents < MaxHostEvents
    /\ \E newAttr \in HostAttrs(variant, hostStore, attr.setValue) :
        /\ newAttr # attr
        /\ attr' = newAttr
        /\ hostStore' = IF newAttr.status = "available" THEN newAttr.value ELSE hostStore
        /\ IF resolveAttr(newAttr) # resolveAttr(attr)
           THEN /\ WorkbookStateEffect(resolveAttr(newAttr), newAttr, onSheetChange)
                /\ last' = [Op("HostRefresh") EXCEPT
                               !.loaded = ReloadAccepted(resolveAttr(newAttr))]
           ELSE /\ UNCHANGED <<sheets, activeSheetIndex, lastLoadedJson, isInitialLoad,
                               savingStatus, timers, debounceTimer, timerSeq, saveCleanup>>
                /\ last' = Op("HostRefresh")
    /\ hostEvents' = hostEvents + 1
    /\ hostOk' = (hostOk /\ PropsOk(attr', onSheetChange))
    /\ UNCHANGED <<variant, phase, onSheetChange, hasPendingEdits, singleVars,
                   savedTimer, edits, dirty, burst, savedJson>>
    /\ UNCHANGED <<perm, call>>

\* const activeSheetEditable = activeSheet ? canEditSheet(activeSheet.isEditable) : false
activeSheetEditable ==
    IF activeSheetIndex + 1 <= Len(sheets)
    THEN canEditSheet(perm.isReadOnly, sheets[activeSheetIndex + 1].isEditable)
    ELSE FALSE

\* handleCellChange(sheetId, newData), called by the grid of the active sheet;
\* the grid is read-only unless activeSheetEditable
MultiCellChange ==
    /\ variant = "multi" /\ phase = "mounted"
    /\ edits < MaxEdits
    /\ activeSheetEditable
    /\ \E e \in UserEdits :
        LET active   == sheets[activeSheetIndex + 1]
            newData  == GridAfterEdit(active.data, e)
            newSheets == updateSheetData(sheets, active.sheetId, newData)
        IN  /\ hasPendingEdits' = TRUE
            /\ sheets' = newSheets
            /\ AutoSaveEffects(newSheets, attr, onSheetChange)
    /\ edits' = edits + 1
    /\ dirty' = TRUE
    /\ burst' = burst + 1
    /\ last' = Op("CellChange")
    /\ UNCHANGED <<variant, phase, attr, onSheetChange, hostStore, activeSheetIndex,
                   lastLoadedJson, singleVars, savedTimer, hostEvents, savedJson,
                   hostOk>>
    /\ UNCHANGED <<perm, call>>

\* the debounce timer fires: performSave of the render that scheduled it
MultiDebounceFire ==
    /\ variant = "multi"
    /\ \E t \in DebounceTimers :
        LET newJson == serializeSheets(t.model)
            res     == triggerSheetChange(t.attr, t.action)
        IN  /\ hostStore' = IF res.wrote THEN newJson ELSE hostStore
            /\ savingStatus' = StatusAfterSave(res.success)
            /\ hasPendingEdits' = GuardAfterSave(res.success)
            /\ lastLoadedJson' = LastLoadedAfterSave(res.success, newJson)
            /\ timers' = TimersAfterSave(timers \ {t}, res.success, timerSeq + 1)
            /\ savedTimer' = IF res.success THEN timerSeq + 1 ELSE savedTimer
            /\ timerSeq' = IF res.success THEN timerSeq + 1 ELSE timerSeq
            /\ dirty' = IF res.wrote /\ t.model = sheets THEN FALSE ELSE dirty
            /\ last' = [op |-> "DebounceFire", attr |-> t.attr, action |-> t.action,
                        json |-> newJson, wrote |-> res.wrote,
                        executed |-> res.executed, success |-> res.success,
                        loaded |-> FALSE, collapsed |-> burst, cancelled |-> 0]
            /\ savedJson' = IF res.success THEN newJson ELSE savedJson
    /\ burst' = 0
    /\ UNCHANGED <<variant, phase, attr, onSheetChange, sheets, activeSheetIndex,
                   isInitialLoad, singleVars, debounceTimer, saveCleanup,
                   edits, hostEvents, hostOk>>
    /\ UNCHANGED <<perm, call>>

\* ------------------------------------------------------------------------
\*  Actions of the single-sheet variant
\* ------------------------------------------------------------------------

\* first render (sheetData = parse of the prop) and its effects in source
\* order: the [sheetIdValue] effect calls setSheetData(parsed) and sets
\* isFirstLoad; the [sheetData] effect consumes isFirstLoad and returns;
\* then the re-render for setSheetData(parsed), whose [sheetData] effect
\* finds isFirstLoad already consumed
SingleMount ==
    /\ variant = "single" /\ phase = "new"
    /\ phase' = "mounted"
    /\ LET parsed == parseSheetJson(resolveAttr(attr), DEFAULT_ROW_COUNT)
       IN  /\ sheetData' = parsed
           /\ SingleSaveEffect(FALSE, parsed, attr, onSheetChange)
    /\ last' = [Op("Mount") EXCEPT !.loaded = TRUE]
    /\ UNCHANGED <<variant, attr, onSheetChange, hostStore, sheetIdValue, multiVars,
                   savedTimer, edits, hostEvents, dirty, burst, savedJson, hostOk>>
    /\ UNCHANGED <<perm, call>>

\* the widget is bound to another sheet: sheetId and sheetJson props change;
\* the [sheetIdValue] effect parses the prop and sets isFirstLoad, the
\* re-render's [sheetData] effect consumes it
SingleSheetIdChange ==
    /\ variant = "single" /\ phase = "mounted"
    /\ hostEvents < MaxHostEvents
    /\ \E newId \in SheetIds \ {sheetIdValue},
          newAttr \in {Avail(d, attr.setValue) : d \in HostDocs(variant)} :
        LET parsed == parseSheetJson(resolveAttr(newAttr), DEFAULT_ROW_COUNT)
        IN  /\ sheetIdValue' = newId
            /\ attr' = newAttr
            /\ hostStore' = newAttr.value
            /\ sheetData' = parsed
            /\ SingleSaveEffect(TRUE, parsed, newAttr, onSheetChange)
    /\ hostEvents' = hostEvents + 1
    /\ hostOk' = (hostOk /\ PropsOk(attr', onSheetChange))
    /\ last' = [Op("SheetIdChange") EXCEPT !.loaded = TRUE]
    /\ UNCHANGED <<variant, phase, onSheetChange, multiVars, savedTimer, edits, dirty,
                   burst, savedJson>>
    /\ UNCHANGED <<perm, call>>

\* the host hands over a new attribute prop for the same sheet: a re-render,
\* no effect has sheetJson among its dependencies
SingleHostRefresh ==
    /\ variant = "single" /\ phase = "mounted"
    /\ hostEvents < MaxHostEvents
    /\ \E newAttr \in HostAttrs(variant, hostStore, attr.setValue) :
        /\ newAttr # attr
        /\ attr' = newAttr
        /\ hostStore' = IF newAttr.status = "available" THEN newAttr.value ELSE hostStore
    /\ hostEvents' = hostEvents + 1
    /\ hostOk' = (hostOk /\ PropsOk(attr', onSheetChange))
    /\ last' = Op("HostRefresh")
    /\ UNCHANGED <<variant, phase, onSheetChange, sheetIdValue, multiVars, sheetData,
                   isFirstLoad, savingStatus, timers, debounceTimer, savedTimer,
                   timerSeq, saveCleanup, edits, dirty, burst, savedJson>>
    /\ UNCHANGED <<perm, call>>

\* afterChange of the grid calls handleCellChange(hot.getData()): the rows
\* the grid was given with the edit applied; the user is taken to have edit
\* access (canEditCells)
SingleCellChange ==
    /\ variant = "single" /\ phase = "mounted"
    /\ edits < MaxEdits
    /\ \E e \in UserEdits :
        /\ e[1] <= Len(gridData(sheetData))
        /\ LET newSheetData ==
                   [sheetData EXCEPT !.data = GridAfterEdit(gridData(sheetData), e)]
           IN  /\ sheetData' = newSheetData
               /\ SingleSaveEffect(isFirstLoad, newSheetData, attr, onSheetChange)
    /\ edits' = edits + 1
    /\ dirty' = TRUE
    /\ burst' = burst + 1
    /\ last' = Op("CellChange")
    /\ UNCHANGED <<variant, phase, attr, onSheetChange, hostStore, sheetIdValue,
                   multiVars, savedTimer, hostEvents, savedJson, hostOk>>
    /\ UNCHANGED <<perm, call>>

SingleDebounceFire ==
    /\ variant = "single"
    /\ \E t \in DebounceTimers :
        LET newJson == serializeSheet(t.model)
            res     == triggerSheetChange(t.attr, t.action)
        IN  /\ hostStore' = IF res.wrote THEN newJson ELSE hostStore
            /\ savingStatus' = StatusAfterSave(res.success)
            /\ timers' = TimersAfterSave(timers \ {t}, res.success, timerSeq + 1)
            /\ savedTimer' = IF res.success THEN timerSeq + 1 ELSE savedTimer
            /\ timerSeq' = IF res.success THEN timerSeq + 1 ELSE timerSeq
            /\ dirty' = IF res.wrote /\ t.model = sheetData THEN FALSE ELSE dirty
            /\ last' = [op |-> "DebounceFire", attr |-> t.attr, action |-> t.action,
                        json |-> newJson, wrote |-> res.wrote,
                        executed |-> res.executed, success |-> res.success,
                        loaded |-> FALSE, collapsed |-> burst, cancelled |-> 0]
            /\ savedJson' = IF res.success THEN newJson ELSE savedJson
    /\ burst' = 0
    /\ UNCHANGED <<variant, phase, attr, onSheetChange, sheetIdValue, multiVars,
                   sheetData, isFirstLoad, debounceTimer, saveCleanup,
                   edits, hostEvents, hostOk>>
    /\ UNCHANGED <<perm, call>>

\* ------------------------------------------------------------------------
\*  Actions common to both variants
\* ------------------------------------------------------------------------

\* the saved-display timer fires: setSavingStatus("idle")
SavedFire ==
    /\ \E t \in SavedTimers : timers' = timers \ {t}
    /\ savingStatus' = "idle"
    /\ last' = Op("SavedFire")
    /\ UNCHANGED <<variant, phase, attr, onSheetChange, sheetIdValue, hostStore,
                   multiVars, sheetData, isFirstLoad, debounceTimer, savedTimer,
                   timerSeq, saveCleanup, edits, hostEvents, dirty, burst,
                   savedJson, hostOk>>
    /\ UNCHANGED <<perm, call>>

\* the host hands over an onSheetChange prop whose canExecute has changed:
\* a re-render, no effect runs
HostActionChange ==
    /\ phase = "mounted"
    /\ hostEvents < MaxHostEvents
    /\ onSheetChange \in {"ok", "blocked"}
    /\ onSheetChange' = IF onSheetChange = "ok" THEN "blocked" ELSE "ok"
    /\ hostEvents' = hostEvents + 1
    /\ hostOk' = FALSE
    /\ last' = Op("ActionChange")
    /\ UNCHANGED <<variant, phase, attr, sheetIdValue, hostStore, multiVars, sheetData,
                   isFirstLoad, savingStatus, timers, debounceTimer, savedTimer,
                   timerSeq, saveCleanup, edits, dirty, burst, savedJson>>
    /\ UNCHANGED <<perm, call>>

\* the component is removed: React runs the cleanups of its effects
Unmount ==
    /\ phase = "mounted"
    /\ phase' = "unmounted"
    /\ timers' = UnmountCleanup(timers)
    /\ last' = [Op("Unmount") EXCEPT
                   !.cancelled = Cardinality(timers) - Cardinality(UnmountCleanup(timers))]
    /\ UNCHANGED <<variant, attr, onSheetChange, sheetIdValue, hostStore, multiVars,
                   sheetData, isFirstLoad, savingStatus, debounceTimer, savedTimer,
                   timerSeq, saveCleanup, edits, hostEvents, dirty, burst, savedJson,
                   hostOk>>
    /\ UNCHANGED <<perm, call>>

Next ==
    \/ MultiMount
    \/ MultiHostRefresh
    \/ MultiCellChange
    \/ MultiDebounceFire
    \/ SingleMount
    \/ SingleSheetIdChange
    \/ SingleHostRefresh
    \/ SingleCellChange
    \/ SingleDebounceFire
    \/ SavedFire
    \/ HostActionChange
    \/ Unmount

Spec == Init /\ [][Next]_vars

TypeOK ==
    /\ variant \in {"multi", "single"}
    /\ phase \in {"new", "mounted", "unmounted"}
    /\ savingStatus \in {"idle", "saving", "saved"}
    /\ edits \in 0..MaxEdits
    /\ hostEvents \in 0..MaxHostEvents

\* ------------------------------------------------------------------------
\*  Properties
\* ------------------------------------------------------------------------

\* the in-memory model of the variant and its serialization
Model == IF variant = "multi" THEN sheets ELSE sheetData
Serialize(m) == IF variant = "multi" THEN serializeSheets(m) ELSE serializeSheet(m)

\* C1: in the multi-sheet variant a host refresh that arrives while
\* hasPendingEdits is set leaves sheets unchanged; a host refresh that changes
\* the prop to a value different from the last loaded one while the guard is
\* clear replaces sheets with the parse of the new value.
C1_GuardedReload ==
    [][ (variant = "multi" /\ last'.op = "HostRefresh") =>
            /\ hasPendingEdits => sheets' = sheets
            /\ ( /\ ~hasPendingEdits
                 /\ resolveAttr(attr') # resolveAttr(attr)
                 /\ resolveAttr(attr') # NoValue
                 /\ resolveAttr(attr') # lastLoadedJson )
               => sheets' = parseSheets(resolveAttr(attr')) ]_vars

\* a refresh delivered a value never loaded while the guard was set, and the
\* edited sheets are still there
C1_Witness ==
    /\ variant = "multi" /\ last.op = "HostRefresh"
    /\ hasPendingEdits
    /\ resolveAttr(attr) \notin {NoValue, lastLoadedJson}
    /\ sheets # parseSheets(resolveAttr(attr))

\* C2 (as the spec states it): loading at mount never starts a save cycle:
\* until a user-originated change no debounce timer is scheduled, the status
\* stays idle and nothing is written or committed.
C2_NoSaveOnLoad ==
    (edits = 0 /\ hostEvents = 0) =>
        /\ savingStatus = "idle"
        /\ DebounceTimers = {}
        /\ ~last.wrote /\ ~last.executed

\* C3: user changes that each arrive before the pending debounce timer fired
\* collapse into one write sequence: at most one debounce timer is pending,
\* after a user change exactly one is, its callback saves the model as of
\* that change, and its firing performs the one write, of the serialization
\* of that model, and leaves no debounce timer behind.
C3_DebounceCollapse ==
    /\ Cardinality(DebounceTimers) <= 1
    /\ \A t \in DebounceTimers : t.model = Model
    /\ last.op = "CellChange" => Cardinality(DebounceTimers) = 1
    /\ last.op = "DebounceFire" =>
           /\ DebounceTimers = {}
           /\ last.json = Serialize(Model)
           /\ last.wrote => hostStore = last.json

\* two user changes were covered by one firing, which wrote the final model
C3_Witness ==
    /\ last.op = "DebounceFire" /\ last.collapsed = 2
    /\ last.wrote /\ hostStore = Serialize(Model)

\* the write step of a sequence run with attribute prop a is skipped or fails
WriteFails(a) == a.status # "available" \/ a.setValue # "ok"

\* C4: when the write step of a write sequence is skipped or fails (attribute
\* absent, its status not "available", setValue missing or throwing), the
\* commit action is not invoked and the status goes to idle, not to saved.
C4_WriteFailure ==
    (last.op = "DebounceFire" /\ WriteFails(last.attr)) =>
        /\ ~last.wrote
        /\ ~last.executed
        /\ ~last.success
        /\ savingStatus = "idle"

\* the write sequence of a user change ran into a setValue that throws
C4_Witness ==
    /\ last.op = "DebounceFire" /\ last.collapsed >= 1
    /\ last.attr.status = "available" /\ last.attr.setValue = "throws"
    /\ savingStatus = "idle"

\* C5: when the write succeeds but the commit action is absent, not
\* executable or throws, the written value stays in the attribute, the
\* sequence reports failure and the status goes to idle, not to saved.
C5_CommitFailure ==
    (last.op = "DebounceFire" /\ ~WriteFails(last.attr)
        /\ last.action \in {"absent", "blocked", "throws"}) =>
        /\ last.wrote
        /\ hostStore = last.json
        /\ ~last.success
        /\ savingStatus = "idle"

\* the write sequence of a user change wrote, and then execute threw
C5_Witness ==
    /\ last.op = "DebounceFire" /\ last.collapsed >= 1
    /\ last.action = "throws" /\ last.wrote /\ last.executed
    /\ hostStore = last.json /\ savingStatus = "idle"

\* C6: the pending-edits guard goes from set to clear only in a step in which
\* a write sequence fully succeeded (available attribute, setValue returned,
\* executable action executed without throwing); every other step leaves a
\* set guard set.
C6_GuardClearedOnlyBySuccess ==
    [][ (hasPendingEdits /\ ~hasPendingEdits') =>
            /\ last'.op = "DebounceFire"
            /\ ~WriteFails(last'.attr) /\ last'.action = "ok"
            /\ last'.wrote /\ last'.executed /\ last'.success ]_vars

\* a firing that covers a user change fully succeeded and cleared the guard
C6_Witness ==
    /\ variant = "multi" /\ last.op = "DebounceFire" /\ last.collapsed >= 1
    /\ last.success /\ ~hasPendingEdits

\* C7: after a fully successful write sequence the status is saved, the guard
\* is clear and one saved-display timer is pending; while the status is saved
\* that timer stays pending, and the status goes from saved to idle only in
\* the step in which it fires.
C7_SavedThenIdle ==
    /\ [] /\ (last.op = "DebounceFire" /\ last.success) =>
               /\ savingStatus = "saved"
               /\ ~hasPendingEdits
               /\ Cardinality(SavedTimers) = 1
          /\ (phase = "mounted" /\ savingStatus = "saved") => SavedTimers # {}
          /\ last.op = "SavedFire" => savingStatus = "idle"
    /\ [][ (savingStatus = "saved" /\ savingStatus' = "idle") =>
               last'.op = "SavedFire" ]_vars

\* the saved-display timer fired with no model change since the save
C7_Witness ==
    /\ last.op = "SavedFire" /\ savingStatus = "idle"
    /\ DebounceTimers = {} /\ ~dirty /\ savedJson = Serialize(Model)

\* C8 (as the spec states it): after a successful write sequence wrote J, a
\* host refresh that delivers exactly J is not re-parsed and does not replace
\* the in-memory sheets.
C8_EchoNotReparsed ==
    ( /\ variant = "multi" /\ last.op = "HostRefresh"
      /\ savedJson # NoValue
      /\ resolveAttr(attr) = savedJson ) => ~last.loaded

\* C8 (amended): a successful write sequence forgets the last loaded text, so
\* the first host refresh that changes the prop to the written text J while
\* the guard is clear is parsed and replaces sheets with the parse of J; a
\* refresh is short-circuited only when it delivers the text recorded at the
\* last accepted load.
C8_EchoReparsed ==
    /\ [] ( (variant = "multi" /\ last.op = "DebounceFire" /\ last.success) =>
               (lastLoadedJson = NoValue /\ savedJson = last.json) )
    /\ [][ (variant = "multi" /\ last'.op = "HostRefresh") =>
             /\ ( /\ savedJson # NoValue
                  /\ resolveAttr(attr') = savedJson
                  /\ resolveAttr(attr) # savedJson
                  /\ lastLoadedJson # savedJson
                  /\ ~hasPendingEdits )
                => ( /\ last'.loaded
                     /\ sheets' = parseSheets(savedJson)
                     /\ lastLoadedJson' = savedJson )
             /\ resolveAttr(attr') = lastLoadedJson
                => (~last'.loaded /\ sheets' = sheets) ]_vars

\* the host delivered the text the last successful write sequence wrote, and
\* it was parsed
C8_Witness ==
    /\ variant = "multi" /\ last.op = "HostRefresh" /\ last.loaded
    /\ savedJson # NoValue /\ resolveAttr(attr) = savedJson
    /\ lastLoadedJson = savedJson

\* C9: after unmount no timer is pending and no step follows the teardown:
\* nothing is written, committed or shown.
C9_NothingAfterUnmount ==
    phase = "unmounted" => (timers = {} /\ last.op = "Unmount")

\* the component was unmounted with both timers pending
C9_Witness ==
    phase = "unmounted" /\ last.cancelled = 2

\* C10 (as the spec states it, in the form a finite run refutes): while the
\* widget is mounted and every render had an available, writable attribute
\* and an executable commit action, a user change not yet written has a
\* debounce timer pending whose write will include it.
C10_NoEditDropped ==
    (phase = "mounted" /\ hostOk /\ dirty) =>
        \E t \in DebounceTimers : t.model = Model /\ PropsOk(t.attr, t.action)

\* ------------------------------------------------------------------------
\*  The multi-sheet widget with its tab bar, under every permission props
\* ------------------------------------------------------------------------

\* the isAdmin and isReadOnly props the host may hand over
PermProps == [isAdmin : BOOLEAN, isReadOnly : BOOLEAN]

\* the values Date.now() returns when a sheet is added
Clock == {1001, 1002}

\* the props of the first render: a two-sheet workbook that can be written,
\* its sheets stored under two ids or under one
PermInit ==
    /\ variant = "multi"
    /\ phase = "new"
    /\ hostStore \in {DocB, DocTwins}
    /\ attr = Avail(hostStore, "ok")
    /\ onSheetChange = "ok"
    /\ sheetIdValue = ""
    /\ sheets = <<>>
    /\ activeSheetIndex = 0
    /\ lastLoadedJson = NoValue
    /\ hasPendingEdits = FALSE
    /\ isInitialLoad = TRUE
    /\ sheetData = NoSheetData
    /\ isFirstLoad = TRUE
    /\ savingStatus = "idle"
    /\ timers = {}
    /\ debounceTimer = 0
    /\ savedTimer = 0
    /\ timerSeq = 0
    /\ saveCleanup = FALSE
    /\ edits = 0
    /\ hostEvents = 0
    /\ dirty = FALSE
    /\ burst = 0
    /\ savedJson = NoValue
    /\ hostOk = TRUE
    /\ last = Op("Init")
    /\ perm \in PermProps
    /\ call = NoCall

\* what a handler of WorkbookContainer that changes the sheets does:
\* markPendingEdits(), setSheets(newSheets), setActiveSheetIndex(index)
\* through the clamping setter of this render, and the effects of the next
\* render
StructureEdit(name, newSheets, index) ==
    /\ hasPendingEdits' = TRUE
    /\ sheets' = newSheets
    /\ activeSheetIndex' = clampIndex(index, 0, Max(0, Len(sheets) - 1))
    /\ AutoSaveEffects(newSheets, attr, onSheetChange)
    /\ edits' = edits + 1
    /\ dirty' = TRUE
    /\ burst' = burst + 1
    /\ last' = Op(name)
    /\ UNCHANGED <<variant, phase, attr, onSheetChange, hostStore,
                   lastLoadedJson, singleVars, savedTimer, hostEvents, savedJson,
                   hostOk>>
    /\ UNCHANGED <<perm, call>>

\* the tab bar is rendered when there are sheets; its + button, its delete
\* buttons and its rename box exist when isWorkbookEditable = !isReadOnlyValue
TabBarEditable ==
    /\ variant = "multi" /\ phase = "mounted"
    /\ Len(sheets) > 0
    /\ ~perm.isReadOnly

\* click on +: handleAddSheet
TabAddSheet ==
    /\ TabBarEditable
    /\ edits < MaxEdits
    /\ \E now \in Clock :
          StructureEdit("AddSheet", addSheet(sheets, now), Len(sheets))

\* click on the delete button of a tab: handleDelete of the tab bar, then
\* handleDeleteSheet
TabDeleteSheet ==
    /\ TabBarEditable
    /\ edits < MaxEdits
    /\ Len(sheets) > 1
    /\ \E i \in 1..Len(sheets) :
          StructureEdit("DeleteSheet", deleteSheet(sheets, sheets[i].sheetId),
                        Max(0, activeSheetIndex - 1))

\* double click on a tab, a name typed, Enter: startRename, commitRename,
\* then handleRenameSheet unless the trimmed name is empty
TabRenameSheet ==
    /\ TabBarEditable
    /\ edits < MaxEdits
    /\ \E i \in 1..Len(sheets), renameValue \in TypedNames :
          /\ Trim(renameValue) # ""
          /\ StructureEdit("RenameSheet",
                           renameSheet(sheets, sheets[i].sheetId, Trim(renameValue)),
                           activeSheetIndex)

\* click on a tab: handleTabChange
TabChange ==
    /\ variant = "multi" /\ phase = "mounted"
    /\ \E index \in 0..(Len(sheets) - 1) :
          activeSheetIndex' = clampIndex(index, 0, Max(0, Len(sheets) - 1))
    /\ last' = Op("TabChange")
    /\ UNCHANGED <<variant, phase, attr, onSheetChange, sheetIdValue, hostStore,
                   sheets, lastLoadedJson, hasPendingEdits, isInitialLoad,
                   sheetData, isFirstLoad, savingStatus, timers, debounceTimer,
                   savedTimer, timerSeq, saveCleanup, edits, hostEvents, dirty,
                   burst, savedJson, hostOk>>
    /\ UNCHANGED <<perm, call>>

\* the host hands over other isAdmin and isReadOnly props: a re-render
\* with a new canEditSheet, no effect runs
HostPermsChange ==
    /\ phase = "mounted"
    /\ \E p \in PermProps \ {perm} : perm' = p
    /\ UNCHANGED <<widgetVars, call>>

PermNext ==
    \/ MultiMount
    \/ MultiCellChange
    \/ MultiDebounceFire
    \/ SavedFire
    \/ TabAddSheet
    \/ TabDeleteSheet
    \/ TabRenameSheet
    \/ TabChange
    \/ HostPermsChange

PermSpec == PermInit /\ [][PermNext]_vars

\* ------------------------------------------------------------------------
\*  The data service and the permission functions, called on their own
\* ------------------------------------------------------------------------

\* all sequences over S of length at most n
RECURSIVE SeqsUpTo(_, _)
SeqsUpTo(S, n) ==
    IF n = 0 THEN {<<>>}
    ELSE LET shorter == SeqsUpTo(S, n - 1)
         IN  shorter \cup {Append(q, x) : q \in shorter, x \in S}

\* the cells a raw row may hold
RawCells == {Null, "x"}

\* a row wider than MIN_COLS and a grid taller than MIN_ROWS
WideRow  == JArr([c \in 1..(MIN_COLS + 1) |-> IF c = MIN_COLS + 1 THEN "w" ELSE Null])
TallGrid == JArr([r \in 1..(MIN_ROWS + 1) |->
                    JArr(IF r = MIN_ROWS + 1 THEN <<"t">> ELSE <<>>)])

\* what an element of a raw data array may be: an array of cells, or not an array
RawRows == {JArr(q) : q \in SeqsUpTo(RawCells, MaxRawCols)}
               \cup {JNull, JStr("z"), WideRow}

\* what the data property of a raw sheet may be
RawGrids == {JArr(q) : q \in SeqsUpTo(RawRows, MaxRawRows)}
                \cup {JUndef, JNull, JStr("d"), JNum(1), EmptyObj, TallGrid}

\* a raw object with data property g (without it when g is undefined)
WithData(g) == IF g = JUndef THEN EmptyObj ELSE JObj([data |-> g])

\* the rowCount props parseSheetJson is called with
RowCounts == {3, DEFAULT_ROW_COUNT}

\* the widget is not mounted while the functions are called on their own
WidgetIdle ==
    /\ variant = "multi" /\ phase = "new"
    /\ attr = AbsentAttr /\ onSheetChange = "absent"
    /\ sheetIdValue = "" /\ hostStore = NoValue
    /\ sheets = <<>> /\ activeSheetIndex = 0
    /\ lastLoadedJson = NoValue /\ hasPendingEdits = FALSE /\ isInitialLoad = TRUE
    /\ sheetData = NoSheetData /\ isFirstLoad = TRUE
    /\ savingStatus = "idle" /\ timers = {}
    /\ debounceTimer = 0 /\ savedTimer = 0 /\ timerSeq = 0 /\ saveCleanup = FALSE
    /\ edits = 0 /\ hostEvents = 0 /\ dirty = FALSE /\ burst = 0
    /\ savedJson = NoValue /\ hostOk = FALSE /\ last = Op("Init")

FnInit ==
    /\ WidgetIdle
    /\ perm = WritableProps
    /\ call = NoCall

\* parseSheets(jsonString) on the text of a one-sheet array
CallParseSheetsGrid ==
    /\ call = NoCall
    /\ \E g \in RawGrids :
          LET text == Stringify(JArr(<< WithData(g) >>))
          IN  call' = [fn |-> "parseSheets", arg |-> text, out |-> parseSheets(text)]
    /\ UNCHANGED <<widgetVars, perm>>

\* parseSheetJson(jsonString, rowCount) on the text of an object
CallParseSheetJsonGrid ==
    /\ call = NoCall
    /\ \E g \in RawGrids, n \in RowCounts :
          LET text == Stringify(WithData(g))
          IN  call' = [fn |-> "parseSheetJson", arg |-> text, rowCount |-> n,
                       out |-> parseSheetJson(text, n)]
    /\ UNCHANGED <<widgetVars, perm>>

\* arguments that are no JSON text, and JSON texts of every top-level shape
TopLevelValues == {JNull, JNum(1), JStr("s"), JBool(TRUE), EmptyObj, EmptyArr}
ParseArgs == {NoValue, NonStringText, BlankText, InvalidText}
                 \cup {Stringify(v) : v \in TopLevelValues}

CallParseSheetsText ==
    /\ call = NoCall
    /\ \E text \in ParseArgs :
          call' = [fn |-> "parseSheets", arg |-> text, out |-> parseSheets(text)]
    /\ UNCHANGED <<widgetVars, perm>>

CallParseSheetJsonText ==
    /\ call = NoCall
    /\ \E text \in ParseArgs, n \in RowCounts :
          call' = [fn |-> "parseSheetJson", arg |-> text, rowCount |-> n,
                   out |-> parseSheetJson(text, n)]
    /\ UNCHANGED <<widgetVars, perm>>

\* the fields of a sheet object, and for each a value of the expected type
\* and a value of another type
SheetFields == {"sheetId", "sheetName", "orderIndex", "isEditable", "data",
                "cellMeta", "colWidths", "rowHeights", "mergedCells"}

GoodField(f) ==
    CASE f = "sheetId"     -> JStr("a")
      [] f = "sheetName"   -> JStr("S")
      [] f = "orderIndex"  -> JNum(3)
      [] f = "isEditable"  -> JBool(TRUE)
      [] f = "data"        -> JArr(<< JArr(<<"x">>) >>)
      [] f = "cellMeta"    -> JObj([r0c0 |-> JObj([bold |-> JBool(TRUE)])])
      [] f = "colWidths"   -> JArr(<< JNum(10) >>)
      [] f = "rowHeights"  -> JArr(<< JNum(20) >>)
      [] f = "mergedCells" -> JArr(<< JObj([row |-> JNum(0), col |-> JNum(0)]) >>)

BadField(f) ==
    CASE f = "sheetId"     -> JNum(5)
      [] f = "sheetName"   -> EmptyObj
      [] f = "orderIndex"  -> JStr("1")
      [] f = "isEditable"  -> JStr("true")
      [] f = "data"        -> JStr("d")
      [] f = "cellMeta"    -> JStr("m")
      [] f = "colWidths"   -> EmptyObj
      [] f = "rowHeights"  -> JNum(3)
      [] f = "mergedCells" -> JBool(TRUE)

\* how a raw sheet object may treat each field; at most two fields deviate
\* from a value of the expected type
FieldShapes ==
    {sh \in [SheetFields -> {"good", "missing", "null", "bad"}] :
        Cardinality({f \in SheetFields : sh[f] # "good"}) <= 2}

RawSheetOf(sh) ==
    JObj([f \in {g \in SheetFields : sh[g] # "missing"} |->
            CASE sh[f] = "good" -> GoodField(f)
              [] sh[f] = "null" -> JNull
              [] sh[f] = "bad"  -> BadField(f)])

\* elements of the sheet array that are no objects, next to one that is
OddElements == {JNull, JNum(7), JStr("q"),
                RawSheetOf([f \in SheetFields |-> "good"]),
                RawSheetOf([f \in SheetFields |->
                              IF f = "orderIndex" THEN "missing" ELSE "good"])}

\* parseSheets on a one-sheet array whose sheet has missing, null or mistyped fields
CallParseSheetsFields ==
    /\ call = NoCall
    /\ \E sh \in FieldShapes :
          LET text == Stringify(JArr(<< RawSheetOf(sh) >>))
          IN  call' = [fn |-> "parseSheets", arg |-> text, out |-> parseSheets(text)]
    /\ UNCHANGED <<widgetVars, perm>>

\* parseSheets on a two-element array with elements that are no objects
CallParseSheetsElements ==
    /\ call = NoCall
    /\ \E e1 \in OddElements, e2 \in OddElements :
          LET text == Stringify(JArr(<< e1, e2 >>))
          IN  call' = [fn |-> "parseSheets", arg |-> text, out |-> parseSheets(text)]
    /\ UNCHANGED <<widgetVars, perm>>

\* raw grids with cells cleared to the empty string
BlankGrids ==
    {JArr(<< JArr(<<"">>) >>),
     JArr(<< JArr(<<"x", "">>), JArr(<<"">>) >>),
     JArr(<< JArr(<<"", "x">>), JArr(<<"", "">>), JArr(<<Null, "y">>), JArr(<<"">>) >>)}

\* the grids a sheet of the widget may hold: normalised by the parser
SheetGrids(rowCount) == {normaliseDataN(g, rowCount) : g \in RawGrids \cup BlankGrids}

\* the workbooks the widget may hold: what parseSheets returns, with any of
\* the grids
NormalSheets ==
    {<< [buildEmptySheet(JStr("a"), JStr("S"), 0) EXCEPT !.data = g] >> :
        g \in SheetGrids(MIN_ROWS)}
    \cup {parseSheets(Stringify(JArr(<< RawSheetOf(sh) >>))) : sh \in FieldShapes}
    \cup {parseSheets(DocB)}

\* the rowLabels property of a raw single sheet
RawLabels == {JUndef, EmptyArr,
              JArr(<< JStr("R1") >>),
              JArr(<< JStr("R1"), JStr("") >>),
              JArr(<< JStr(""), JStr("R2") >>),
              JArr(<< JStr(""), JStr("") >>),
              JArr(<< JNum(1), JNull, JStr("R3") >>)}

\* a raw single sheet with the given rowLabels, bare or with every other
\* property set
RawSheetDataOf(labels, full) ==
    LET props == IF full THEN {"data", "columns", "cellMeta", "colWidths",
                               "rowHeights", "mergedCells"}
                         ELSE {"data"}
    IN  JObj([f \in props \cup (IF labels = JUndef THEN {} ELSE {"rowLabels"}) |->
                CASE f = "rowLabels" -> labels
                  [] f = "columns"   -> JArr(<< JObj([key |-> JStr("c0"),
                                                      header |-> JStr("Name")]) >>)
                  [] OTHER           -> GoodField(f)])

\* the sheets the single-sheet widget may hold: what parseSheetJson returns,
\* with any of the grids
NormalSheetData(n) ==
    {[buildEmptySheetData(n) EXCEPT !.data = g] : g \in SheetGrids(n)}
    \cup {parseSheetJson(Stringify(RawSheetDataOf(l, full)), n) :
              l \in RawLabels, full \in BOOLEAN}

\* the value a serialize call ends with when reading a property of null or
\* undefined throws and nothing catches it
SerializeTypeError == [error |-> "TypeError"]

\* the rows trimData clones from a raw data value: [] for a row that is no array
ClonedRows(d) == [i \in 1..Len(d.v) |-> IF IsArray(d.v[i]) THEN d.v[i].v ELSE <<>>]

\* trimData(data) for any value: [[]] unless data is a non-empty array
trimDataOf(d) ==
    IF ~IsArray(d) \/ Len(d.v) = 0 THEN << <<>> >> ELSE trimData(ClonedRows(d))

\* the properties JSON.stringify writes: those that are not undefined
Defined(o) == [f \in {g \in DOMAIN o : o[g] # JUndef} |-> o[f]]

\* serializeSheet(sheet) of the multi-sheet service for any element of the
\* array: reading sheet.sheetId throws when sheet is null or undefined
serializeSheetOf(sheet) ==
    IF sheet.t \in {"null", "undefined"} THEN SerializeTypeError
    ELSE JObj(Defined(
            [sheetId     |-> Field(sheet, "sheetId"),
             sheetName   |-> Field(sheet, "sheetName"),
             orderIndex  |-> Field(sheet, "orderIndex"),
             isEditable  |-> Field(sheet, "isEditable"),
             data        |-> GridToJson(trimDataOf(Field(sheet, "data"))),
             cellMeta    |-> Coalesce(Field(sheet, "cellMeta"), EmptyObj),
             colWidths   |-> Coalesce(Field(sheet, "colWidths"), EmptyArr),
             rowHeights  |-> Coalesce(Field(sheet, "rowHeights"), EmptyArr),
             mergedCells |-> Coalesce(Field(sheet, "mergedCells"), EmptyArr)]))

\* serializeSheets(sheets) for any argument: sheets.map runs before the try
\* block, so what serializeSheet throws leaves serializeSheets
serializeSheetsOf(arg) ==
    IF ~IsArray(arg) THEN Stringify(EmptyArr)
    ELSE LET output == [i \in 1..Len(arg.v) |-> serializeSheetOf(arg.v[i])]
         IN  IF \E i \in 1..Len(output) : output[i] = SerializeTypeError
             THEN SerializeTypeError
             ELSE Stringify(JArr(output))

\* a || d for the values at hand: null, undefined, "", 0 and false are falsy
OrElse(a, d) ==
    IF \/ a.t \in {"null", "undefined"}
       \/ a \in {JStr(""), JNum(0), JBool(FALSE)}
    THEN d ELSE a

\* serializeSheet(sheetData) of the single-sheet service for any argument:
\* the whole body is inside the try block
serializeSheetDataOf(arg) ==
    IF arg.t \in {"null", "undefined"} THEN Stringify(EmptyObj)
    ELSE LET labels == OrElse(Field(arg, "rowLabels"), EmptyArr)
         IN  Stringify(JObj(
                [data        |-> GridToJson(trimDataOf(
                                     OrElse(Field(arg, "data"), EmptyArr))),
                 columns     |-> OrElse(Field(arg, "columns"), EmptyArr),
                 rowLabels   |-> JArr(IF IsArray(labels)
                                      THEN trimRowLabels(labels.v) ELSE <<>>),
                 cellMeta    |-> OrElse(Field(arg, "cellMeta"), EmptyObj),
                 colWidths   |-> OrElse(Field(arg, "colWidths"), EmptyArr),
                 rowHeights  |-> OrElse(Field(arg, "rowHeights"), EmptyArr),
                 mergedCells |-> OrElse(Field(arg, "mergedCells"), EmptyArr)]))

\* arguments that are no workbook: missing, no array, an array with elements
\* that are no sheets, sheets with fields missing or of another type
OddWorkbooks ==
    {JUndef, JNull, JNum(1), JStr("s"), EmptyObj, EmptyArr}
    \cup {JArr(<< e >>) : e \in {JNull, JUndef, JNum(7), JStr("q"), EmptyObj, EmptyArr}}
    \cup {JArr(<< e1, e2 >>) : e1, e2 \in OddElements}
    \cup {JArr(<< RawSheetOf(sh) >>) : sh \in FieldShapes}

\* arguments that are no single sheet
OddSheetData ==
    {JUndef, JNull, JNum(1), JStr("s"), EmptyArr, EmptyObj,
     JObj([data |-> JStr("d")]), JObj([data |-> JArr(<< JNull, JArr(<<"x">>) >>)]),
     JObj([rowLabels |-> JStr("R")]), JObj([rowLabels |-> JNum(3)]),
     JObj([rowLabels |-> JArr(<< "R1", "" >>), columns |-> JNull])}

\* serializeSheets(arg) on an argument that is no workbook
CallSerializeSheetsOdd ==
    /\ call = NoCall
    /\ \E a \in OddWorkbooks :
          call' = [fn |-> "serializeSheetsOf", arg |-> a, out |-> serializeSheetsOf(a)]
    /\ UNCHANGED <<widgetVars, perm>>

\* serializeSheet(arg) of the single-sheet service on an argument that is no sheet
CallSerializeSheetOdd ==
    /\ call = NoCall
    /\ \E a \in OddSheetData :
          call' = [fn |-> "serializeSheetDataOf", arg |-> a,
                   out |-> serializeSheetDataOf(a)]
    /\ UNCHANGED <<widgetVars, perm>>

\* serializeSheets(sheets)
CallSerializeSheets ==
    /\ call = NoCall
    /\ \E m \in NormalSheets :
          call' = [fn |-> "serializeSheets", arg |-> m, out |-> serializeSheets(m)]
    /\ UNCHANGED <<widgetVars, perm>>

\* serializeSheet(sheetData) of the single-sheet variant
CallSerializeSheet ==
    /\ call = NoCall
    /\ \E n \in RowCounts : \E sd \in NormalSheetData(n) :
          call' = [fn |-> "serializeSheet", arg |-> sd, rowCount |-> n,
                   out |-> serializeSheet(sd)]
    /\ UNCHANGED <<widgetVars, perm>>

\* the actor ids and permission levels the host may hand over
ActorIds         == {Undefined, "", " ", "  ", "u1", " u1 ", "u2"}
PermissionLevels == {Undefined, "Edit", "View", "edit"}

\* one render of the single-sheet WorkbookContainer resolves canEditCells
CallCanEditCells ==
    /\ call = NoCall
    /\ \E a \in BOOLEAN, cur \in ActorIds, acc \in ActorIds, lvl \in PermissionLevels :
          call' = [fn |-> "canEditCells",
                   arg |-> [isAdmin |-> a, currentUserId |-> cur,
                            accessUserId |-> acc, permissionType |-> lvl],
                   out |-> canEditCells(a, cur, acc, lvl)]
    /\ UNCHANGED <<widgetVars, perm>>

\* one render of the multi-sheet WorkbookContainer resolves whether the cells
\* of a sheet can be edited: canEditSheet(sheet.isEditable), whatever isAdmin is
CallCanEditSheet ==
    /\ call = NoCall
    /\ \E p \in PermProps, x \in BOOLEAN :
          call' = [fn |-> "canEditSheet",
                   arg |-> [isAdmin |-> p.isAdmin, isReadOnly |-> p.isReadOnly,
                            isEditable |-> x],
                   out |-> canEditSheet(p.isReadOnly, x)]
    /\ UNCHANGED <<widgetVars, perm>>

FnNext ==
    \/ CallParseSheetsGrid
    \/ CallParseSheetJsonGrid
    \/ CallParseSheetsText
    \/ CallParseSheetJsonText
    \/ CallParseSheetsFields
    \/ CallParseSheetsElements
    \/ CallSerializeSheets
    \/ CallSerializeSheet
    \/ CallSerializeSheetsOdd
    \/ CallSerializeSheetOdd
    \/ CallCanEditCells
    \/ CallCanEditSheet

FnSpec == FnInit /\ [][FnNext]_vars

\* the rows of grid g number at least minRows and all have one length, which
\* is at least MIN_COLS
GridPadded(g, minRows) ==
    /\ Len(g) >= minRows
    /\ \A r \in 1..Len(g) : Len(g[r]) = Len(g[1]) /\ Len(g[r]) >= MIN_COLS

\* C11: whatever the raw data is (missing, not an array, jagged rows, rows
\* that are not arrays), the grid of every sheet parse returns has at least
\* the configured minimum of rows (MIN_ROWS for parseSheets, rowCount for
\* parseSheetJson), and all its rows have the same length, at least MIN_COLS.
C11_PaddingInvariant ==
    /\ call.fn = "parseSheets" =>
           \A i \in 1..Len(call.out) : GridPadded(call.out[i].data, MIN_ROWS)
    /\ (call.fn = "parseSheetJson" /\ call.out # ParseTypeError) =>
           GridPadded(call.out.data, call.rowCount)

\* a jagged grid with a row that is no array came back padded
C11_Witness ==
    /\ call.fn = "parseSheets"
    /\ call.arg = Stringify(JArr(<< JObj([data |->
                       JArr(<< JArr(<<"x", "x">>), JNull >>)]) >>))
    /\ Len(call.out) = 1
    /\ Len(call.out[1].data) = MIN_ROWS
    /\ call.out[1].data[1] = <<"x", "x">> \o NullRow(MIN_COLS - 2)
    /\ call.out[1].data[2] = NullRow(MIN_COLS)

\* the text is no JSON text of an array / of an object
NotAnArrayText(text)  == text.kind # "json" \/ text.val.t # "arr"
NotAnObjectText(text) == text.kind # "json" \/ text.val.t # "obj"

\* the all-null default sheet of n rows
AllNullSheet(n) ==
    [data        |-> [r \in 1..n |-> [c \in 1..MIN_COLS |-> Null]],
     columns     |-> EmptyArr,
     rowLabels   |-> <<>>,
     cellMeta    |-> EmptyObj,
     colWidths   |-> EmptyArr,
     rowHeights  |-> EmptyArr,
     mergedCells |-> EmptyArr]

\* C12 (as the spec states it): parse never throws: for an empty, non-string
\* or blank argument, for invalid JSON and for JSON of the wrong top-level
\* shape (a primitive, null, an array for an object, a non-array for an
\* array), parseSheets returns the empty array and parseSheetJson returns
\* the all-null default sheet.
C12_ParseNeverThrows ==
    /\ (call.fn = "parseSheets" /\ NotAnArrayText(call.arg)) => call.out = <<>>
    /\ (call.fn = "parseSheetJson" /\ NotAnObjectText(call.arg)) =>
           call.out = AllNullSheet(call.rowCount)

\* C13 (as the spec states it): a malformed element never fails the parse:
\* the result has one sheet per element of the input array, and every field
\* of each sheet is the input value when that has the field's expected type
\* and the field's default when it is missing or of another type.
C13_MalformedSheetDefaults ==
    LET
        ExpectedSheet(raw, index) ==
            LET get(f) == IF raw.t = "obj" /\ f \in DOMAIN raw.v THEN raw.v[f] ELSE JUndef
            IN  [sheetId     |-> IF get("sheetId").t = "str" THEN get("sheetId")
                                 ELSE JStr("sheet-" \o ToString(index)),
                 sheetName   |-> IF get("sheetName").t = "str" THEN get("sheetName")
                                 ELSE JStr("Sheet" \o ToString(index + 1)),
                 orderIndex  |-> IF get("orderIndex").t = "num" THEN get("orderIndex").v
                                 ELSE index,
                 isEditable  |-> IF get("isEditable").t = "bool" THEN get("isEditable").v
                                 ELSE FALSE,
                 data        |-> IF get("data").t = "arr" THEN normaliseData(get("data"))
                                 ELSE [r \in 1..MIN_ROWS |-> [c \in 1..MIN_COLS |-> Null]],
                 cellMeta    |-> IF get("cellMeta").t \in {"obj", "arr"} THEN get("cellMeta")
                                 ELSE EmptyObj,
                 colWidths   |-> IF get("colWidths").t = "arr" THEN get("colWidths")
                                 ELSE EmptyArr,
                 rowHeights  |-> IF get("rowHeights").t = "arr" THEN get("rowHeights")
                                 ELSE EmptyArr,
                 mergedCells |-> IF get("mergedCells").t = "arr" THEN get("mergedCells")
                                 ELSE EmptyArr]
    IN  (call.fn = "parseSheets" /\ ~NotAnArrayText(call.arg)) =>
            LET raws == call.arg.val.v
            IN  /\ Len(call.out) = Len(raws)
                /\ \A i \in 1..Len(raws) :
                      \E j \in 1..Len(call.out) :
                          \A f \in DOMAIN ExpectedSheet(raws[i], i - 1) :
                              /\ f \in DOMAIN call.out[j]
                              /\ call.out[j][f] = ExpectedSheet(raws[i], i - 1)[f]

\* the grid a serialize call was given and the grid in the text it returned
SerializeCalled == call.fn \in {"serializeSheets", "serializeSheet"}
InputGrid   == IF call.fn = "serializeSheets" THEN call.arg[1].data ELSE call.arg.data
EmittedGrid ==
    LET d == IF call.fn = "serializeSheets" THEN call.out.val.v[1].v.data
             ELSE call.out.val.v.data
    IN  [r \in 1..Len(d.v) |-> d.v[r].v]

\* the zero-based column indices of the non-empty cells in the first n rows
UsedCols(g, n) ==
    {c - 1 : c \in {k \in 1..MIN_COLS + MaxRawCols :
                       \E r \in 1..n : k <= Len(g[r]) /\ ~isEmpty(g[r][k])}}

\* C14: trim invariant of serialize. The emitted grid has at least one row;
\* its last row is not fully empty unless it is the only row; every non-empty
\* cell of the input grid is at the same (row, column) in the output, and
\* every emitted cell is the input cell at that position; all emitted rows
\* have one width, one more than the highest index of a non-empty cell of the
\* surviving rows (one cell wide when they hold no non-empty cell).
C14_TrimInvariant ==
    SerializeCalled =>
        LET gin   == InputGrid
            gout  == EmittedGrid
            used == UsedCols(gin, Len(gout))
        IN  /\ Len(gout) >= 1
            /\ Len(gout) <= Len(gin)
            /\ Len(gout) = 1 \/ ~RowAllEmpty(gout[Len(gout)])
            /\ \A r \in 1..Len(gin) : \A c \in 1..Len(gin[r]) :
                  ~isEmpty(gin[r][c]) =>
                      r <= Len(gout) /\ c <= Len(gout[r]) /\ gout[r][c] = gin[r][c]
            /\ \A r \in 1..Len(gout) : \A c \in 1..Len(gout[r]) : gout[r][c] = gin[r][c]
            /\ \A r \in 1..Len(gout) :
                  /\ used # {} => \A h \in used :
                        (\A k \in used : k <= h) => Len(gout[r]) = h + 1
                  /\ used = {} => Len(gout[r]) = 1

\* a grid with an empty row above a used one and an empty column left of a
\* used one was serialized, and rows and columns were cut off
C14_Witness ==
    /\ SerializeCalled
    /\ Len(EmittedGrid) = 2 /\ Len(EmittedGrid) < Len(InputGrid)
    /\ RowAllEmpty(EmittedGrid[1])
    /\ EmittedGrid[2] = << Null, "x" >>
    /\ Len(InputGrid[2]) > 2

\* cell (r, c) of a grid, null outside of it
CellAt(g, r, c) == IF r <= Len(g) /\ c <= Len(g[r]) THEN g[r][c] ELSE Null

\* two grids that differ only in trailing empty rows and columns
SameUpToTrim(g, h) ==
    \A r \in 1..Max(Len(g), Len(h)) : \A c \in 1..(MIN_COLS + MaxRawCols) :
        \/ CellAt(g, r, c) = CellAt(h, r, c)
        \/ isEmpty(CellAt(g, r, c)) /\ isEmpty(CellAt(h, r, c))

\* s with its grid replaced
WithGrid(s, g) == [s EXCEPT !.data = g]

\* what the parser of the variant returns for the text a serialize call returned
ParsedBack ==
    IF call.fn = "serializeSheets" THEN parseSheets(call.out)
    ELSE parseSheetJson(call.out, call.rowCount)

\* serialize(parse(serialize(s))) == serialize(s)
SerializeIdempotent ==
    IF call.fn = "serializeSheets" THEN serializeSheets(ParsedBack) = call.out
    ELSE serializeSheet(ParsedBack) = call.out

ReturnedText == call.out # SerializeTypeError /\ call.out.kind = "json"

\* C16 (as the spec states it): serialize never throws to its caller. For
\* every argument (a missing sheet object, a collection with a null or
\* non-object element, a sheet with missing fields) it returns a string, and
\* the string is "[]" (multi-sheet) or "{}" (single-sheet) when the argument
\* cannot be serialized.
C16_SerializeNeverThrows ==
    /\ call.fn \in {"serializeSheets", "serializeSheet",
                     "serializeSheetsOf", "serializeSheetDataOf"} => ReturnedText
    /\ (call.fn = "serializeSheetsOf" /\ ~IsArray(call.arg)) =>
           call.out = Stringify(EmptyArr)
    /\ (call.fn = "serializeSheetDataOf" /\ call.arg.t \in {"null", "undefined"}) =>
           call.out = Stringify(EmptyObj)

\* the sheets of the workbook, by id, name and position
SheetList(m) ==
    [i \in 1..Len(m) |-> [sheetId    |-> m[i].sheetId,
                          sheetName  |-> m[i].sheetName,
                          orderIndex |-> m[i].orderIndex]]

\* C17 (as the spec states it): structure edits are admin-only. While the
\* widget is mounted and isAdmin is false, no step changes the set of sheets,
\* their names or their order.
C17_StructureAdminOnly ==
    [][(phase = "mounted" /\ ~perm.isAdmin) => SheetList(sheets') = SheetList(sheets)]_vars

RealId(id) == id # Undefined /\ Trim(id) # ""

\* C18 (as the spec states it): identity-based canEditCells is true exactly
\* when isAdmin is true, or the permission level is exactly "Edit" and the
\* current actor id equals the granted one after trimming both, where an id
\* that is absent or empty once trimmed never matches.
C18_IdentityCellEdit ==
    call.fn = "canEditCells" =>
        (call.out <=>
            \/ call.arg.isAdmin
            \/ /\ call.arg.permissionType = "Edit"
               /\ RealId(call.arg.currentUserId)
               /\ RealId(call.arg.accessUserId)
               /\ Trim(call.arg.currentUserId) = Trim(call.arg.accessUserId))

\* C20 (as the spec states it): role-based canEditCells equals
\* isAdmin OR (workbook not read-only AND sheet.isEditable).
C20_RoleCellEditWithAdmin ==
    call.fn = "canEditSheet" =>
        (call.out <=>
            call.arg.isAdmin \/ (~call.arg.isReadOnly /\ call.arg.isEditable))

\* C20 (amended): role-based canEditCells equals workbook not read-only AND
\* sheet.isEditable, whatever isAdmin is.
C20_RoleCellEdit ==
    call.fn = "canEditSheet" =>
        (call.out <=> (~call.arg.isReadOnly /\ call.arg.isEditable))

\* an administrator was refused the cells of a sheet that is not editable
C20_Witness ==
    /\ call.fn = "canEditSheet"
    /\ call.arg.isAdmin /\ ~call.arg.isReadOnly /\ ~call.arg.isEditable
    /\ ~call.out

\* ------------------------------------------------------------------------
\*  Sequences of addSheet and deleteSheet on a parsed workbook
\* ------------------------------------------------------------------------

\* a sheet stored with an orderIndex that is not its position
DocGap == Stringify(JArr(<<
            JObj([sheetId |-> JStr("a"), orderIndex |-> JNum(3),
                  data |-> JArr(<< JArr(<<"x">>) >>)]) >>))

\* the documents the sequences start from
OpsDocs == {DocA, DocB, DocGap, DocTwins, Stringify(EmptyArr)}

\* the ids of the sheets of a workbook
IdsOf(m) == {m[i].sheetId : i \in 1..Len(m)}

\* the record of a step: the function applied, the array it returned, the
\* number of addSheet and deleteSheet calls so far, every id a sheet has
\* had so far, and the id the step assigned (JUndef when it assigned none)
OpsStep(fn, out, steps, seen, assigned) ==
    [fn |-> fn, out |-> out, steps |-> steps, seen |-> seen, assigned |-> assigned]

OpsInit ==
    /\ WidgetIdle
    /\ perm = WritableProps
    /\ call = NoCall

\* parseSheets(jsonString) of a stored document
OpsParse ==
    /\ call = NoCall
    /\ \E doc \in OpsDocs :
          call' = OpsStep("parseSheets", parseSheets(doc), 0, {}, JUndef)
    /\ UNCHANGED <<widgetVars, perm>>

\* addSheet(sheets) on the array the step before returned
OpsAddSheet ==
    /\ call # NoCall
    /\ call.steps < MaxOps
    /\ \E now \in Clock :
          LET out == addSheet(call.out, now)
          IN  call' = OpsStep("addSheet", out, call.steps + 1,
                              call.seen \cup IdsOf(call.out), out[Len(out)].sheetId)
    /\ UNCHANGED <<widgetVars, perm>>

\* deleteSheet(sheets, sheetId) for the id of one of the sheets or an id
\* that no sheet has; the step records the id it was given
OpsDeleteSheet ==
    /\ call # NoCall
    /\ call.steps < MaxOps
    /\ \E sheetId \in IdsOf(call.out) \cup {JStr("gone")} :
          call' = OpsStep("deleteSheet", deleteSheet(call.out, sheetId),
                          call.steps + 1, call.seen \cup IdsOf(call.out), JUndef)
                  @@ [sheetId |-> sheetId]
    /\ UNCHANGED <<widgetVars, perm>>

OpsNext ==
    \/ OpsParse
    \/ OpsAddSheet
    \/ OpsDeleteSheet

OpsSpec == OpsInit /\ [][OpsNext]_vars

\* C22 (as the spec states it): order contiguity. Starting from an array
\* returned by parseSheets, after any sequence of addSheet and deleteSheet
\* the orderIndex values are exactly 0..n-1 in array order.
C22_OrderContiguity ==
    (call # NoCall /\ call.steps > 0) =>
        \A i \in 1..Len(call.out) : call.out[i].orderIndex = i - 1

\* C23 (as the spec states it): sheet ids are unique and never reused.
\* After any sequence of parse, addSheet and deleteSheet the live sheets have
\* pairwise distinct ids, and an id assigned by addSheet differs from the id
\* of every sheet that exists or was deleted earlier, also when two sheets are
\* added at the same clock value.
C23_IdsUniqueNeverReused ==
    call # NoCall =>
        /\ \A i, j \in 1..Len(call.out) :
              i # j => call.out[i].sheetId # call.out[j].sheetId
        /\ call.fn = "addSheet" => call.assigned \notin call.seen

\* the ids of the sheets a host document stores with isEditable true
StoredEditable(doc) ==
    IF doc.kind = "json" /\ IsArray(doc.val)
    THEN {Field(doc.val.v[i], "sheetId") : i \in
             {k \in 1..Len(doc.val.v) : Field(doc.val.v[k], "isEditable") = JBool(TRUE)}}
    ELSE {}

\* C21 (as the spec states it): isEditable is safe by default. A sheet of the
\* in-memory model has isEditable true only when the host document stored
\* the boolean true for it; a sheet from input without it, and a sheet made
\* by addSheet, has isEditable false.
C21_EditableOnlyWhenGranted ==
    \A i \in 1..Len(sheets) :
        sheets[i].isEditable => sheets[i].sheetId \in StoredEditable(DocB)


\* ------------------------------------------------------------------------
\*  Single-sheet widget: the column and row-label settings panels
\*
\*  The handlers of the single-sheet WorkbookContainer that the panels call,
\*  as functions from the previous sheetData to the next, and the widget
\*  under the clicks of an administrator (PanelSpec).
\* ------------------------------------------------------------------------

\* a column definition with the properties handleAddColumn gives it
ColumnDef(key, header, type) ==
    JObj([key      |-> JStr(key),
          header   |-> JStr(header),
          type     |-> JStr(type),
          width    |-> JNum(120),
          source   |-> EmptyArr,
          format   |-> JStr(""),
          readOnly |-> JBool(FALSE)])

\* a.splice(i, 1) : a without the element at index i (from 0), a itself when
\* it has no such index
RemoveAt(a, i) ==
    IF i + 1 \in DOMAIN a
    THEN SubSeq(a, 1, i) \o SubSeq(a, i + 2, Len(a))
    ELSE a

\* a.splice(i, 0, x) : x put in at index i, at the end when i is past it
InsertAt(a, i, x) ==
    LET at == Min(i, Len(a))
    IN  SubSeq(a, 1, at) \o <<x>> \o SubSeq(a, at + 1, Len(a))

\* const [moved] = a.splice(from, 1); a.splice(to, 0, moved); undef is what
\* moved is when a has no index from
SpliceMove(a, from, to, undef) ==
    LET moved == IF from + 1 \in DOMAIN a THEN a[from + 1] ELSE undef
    IN  InsertAt(RemoveAt(a, from), to, moved)

\* handleAddColumn that adds the definition and leaves the rows alone
handleAddColumn_NoCell(prev, now) ==
    [prev EXCEPT !.columns =
        JArr(Append(prev.columns.v,
                    ColumnDef("col-" \o ToString(now),
                              "Column " \o ToString(Len(prev.columns.v) + 1),
                              "text")))]

\* handleAddColumn(); now is the value of Date.now()
handleAddColumn(prev, now) ==
    [prev EXCEPT
        !.columns = JArr(Append(prev.columns.v,
                                ColumnDef("col-" \o ToString(now),
                                          "Column " \o ToString(Len(prev.columns.v) + 1),
                                          "text"))),
        !.data    = [r \in 1..Len(prev.data) |-> Append(prev.data[r], Null)]]

\* { ...c, ...changes }
Merged(c, changes) ==
    JObj([f \in DOMAIN c.v \cup DOMAIN changes |->
            IF f \in DOMAIN changes THEN changes[f] ELSE c.v[f]])

\* handleUpdateColumn(colKey, changes)
handleUpdateColumn(prev, colKey, changes) ==
    [prev EXCEPT !.columns =
        JArr([i \in 1..Len(prev.columns.v) |->
                IF Field(prev.columns.v[i], "key") = colKey
                THEN Merged(prev.columns.v[i], changes)
                ELSE prev.columns.v[i]])]

\* cols.findIndex(c => c.key === colKey), from 0; -1 when there is none
findIndex(cols, colKey) ==
    LET hits == {i \in 1..Len(cols) : Field(cols[i], "key") = colKey}
    IN  IF hits = {} THEN -1
        ELSE (CHOOSE i \in hits : \A j \in hits : i <= j) - 1

\* cols.filter(c => c.key !== colKey)
RECURSIVE WithoutKey(_, _)
WithoutKey(cols, colKey) ==
    IF cols = <<>> THEN <<>>
    ELSE IF Field(Head(cols), "key") = colKey THEN WithoutKey(Tail(cols), colKey)
    ELSE <<Head(cols)>> \o WithoutKey(Tail(cols), colKey)

\* handleDeleteColumn(colKey)
handleDeleteColumn(prev, colKey) ==
    LET idx == findIndex(prev.columns.v, colKey)
    IN  IF idx = -1 THEN prev
        ELSE [prev EXCEPT
                !.columns = JArr(WithoutKey(prev.columns.v, colKey)),
                !.data    = [r \in 1..Len(prev.data) |-> RemoveAt(prev.data[r], idx)]]

\* handleReorderColumn(fromIndex, toIndex)
handleReorderColumn(prev, fromIndex, toIndex) ==
    [prev EXCEPT
        !.columns = JArr(SpliceMove(prev.columns.v, fromIndex, toIndex, JUndef)),
        !.data    = [r \in 1..Len(prev.data) |->
                        SpliceMove(prev.data[r], fromIndex, toIndex, Undefined)]]

\* handleAddRow()
handleAddRow(prev) == [prev EXCEPT !.rowLabels = Append(prev.rowLabels, "")]

\* handleUpdateRow(rowIndex, newLabel): the labels are padded with "" up to
\* rowIndex, then the label is set
handleUpdateRow(prev, rowIndex, newLabel) ==
    LET labels == prev.rowLabels
        padded == IF Len(labels) <= rowIndex
                  THEN labels \o [i \in 1..(rowIndex + 1 - Len(labels)) |-> ""]
                  ELSE labels
    IN  [prev EXCEPT !.rowLabels = [padded EXCEPT ![rowIndex + 1] = newLabel]]

\* handleDeleteRow that also drops the grid row of the label
handleDeleteRow_WithGridRow(prev, rowIndex) ==
    [prev EXCEPT !.rowLabels = RemoveAt(prev.rowLabels, rowIndex),
                 !.data      = RemoveAt(prev.data, rowIndex)]

\* handleDeleteRow(rowIndex): labels.filter((_, i) => i !== rowIndex)
handleDeleteRow(prev, rowIndex) ==
    [prev EXCEPT !.rowLabels = RemoveAt(prev.rowLabels, rowIndex)]

\* handleReorderRow(fromIndex, toIndex)
handleReorderRow(prev, fromIndex, toIndex) ==
    [prev EXCEPT !.rowLabels = SpliceMove(prev.rowLabels, fromIndex, toIndex, Undefined)]


\* '{"data":[["p","q"],["r","s"],["t","u"]],"columns":[c0,c1],
\*   "rowLabels":["R1","R2"],"cellMeta":{"0,0":{"bold":true}},"colWidths":[80]}':
\* two columns, two row labels, a third grid row with values
DocCols ==
    Stringify(JObj(
        [data      |-> JArr(<< JArr(<<"p", "q">>), JArr(<<"r", "s">>), JArr(<<"t", "u">>) >>),
         columns   |-> JArr(<< ColumnDef("c0", "A", "text"), ColumnDef("c1", "B", "numeric") >>),
         rowLabels |-> JArr(<< JStr("R1"), JStr("R2") >>),
         cellMeta  |-> JObj([r0c0 |-> JObj([bold |-> JBool(TRUE)])]),
         colWidths |-> JArr(<< JNum(80) >>)]))

\* a document with two column definitions of the same key, as two columns
\* added at one clock value are stored
DocDup ==
    Stringify(JObj(
        [data    |-> JArr(<< JArr(<<"p", "q", "r">>) >>),
         columns |-> JArr(<< ColumnDef("col-1001", "A", "text"),
                             ColumnDef("col-1001", "B", "text"),
                             ColumnDef("c2", "C", "text") >>)]))

\* a document with MIN_COLS + 1 column definitions, whose data row has
\* MIN_COLS cells, the last one used
DocWide ==
    Stringify(JObj(
        [data    |-> JArr(<< JArr([c \in 1..MIN_COLS |-> IF c = MIN_COLS THEN "z" ELSE Null]) >>),
         columns |-> JArr([c \in 1..(MIN_COLS + 1) |->
                             ColumnDef("k" \o ToString(c), "K", "text")])]))

PanelDocs == {DocS1, DocCols, DocDup, DocWide}

\* the rows of a panel the administrator clicks in: the first two and the
\* last two of n
PanelIndices(n) == {i \in 0..(n - 1) : i <= 1 \/ i >= n - 2}

\* the neighbours the up and down arrows of row index move to
Neighbours(index, n) == {index - 1, index + 1} \cap (0..(n - 1))

\* what the column row of the panel sends to onUpdate: a header typed, a
\* type chosen
ColumnChanges ==
    {[header |-> JStr("H")],
     [type |-> JStr("numeric"), source |-> EmptyArr, format |-> JStr("")]}

\* first render of the single-sheet widget bound to a writable sheet, the
\* user an administrator or not
PanelInit ==
    /\ variant = "single"
    /\ phase = "new"
    /\ hostStore \in PanelDocs
    /\ attr = Avail(hostStore, "ok")
    /\ onSheetChange = "ok"
    /\ sheetIdValue = "s1"
    /\ sheets = <<>>
    /\ activeSheetIndex = 0
    /\ lastLoadedJson = NoValue
    /\ hasPendingEdits = FALSE
    /\ isInitialLoad = TRUE
    /\ sheetData = NoSheetData
    /\ isFirstLoad = TRUE
    /\ savingStatus = "idle"
    /\ timers = {}
    /\ debounceTimer = 0
    /\ savedTimer = 0
    /\ timerSeq = 0
    /\ saveCleanup = FALSE
    /\ edits = 0
    /\ hostEvents = 0
    /\ dirty = FALSE
    /\ burst = 0
    /\ savedJson = NoValue
    /\ hostOk = TRUE
    /\ last = Op("Init")
    /\ perm \in {[isAdmin |-> a, isReadOnly |-> FALSE] : a \in BOOLEAN}
    /\ call = NoCall

\* the panels are rendered for canEditColumns = isAdmin
PanelOpen ==
    /\ variant = "single" /\ phase = "mounted"
    /\ perm.isAdmin
    /\ edits < MaxEdits

\* a panel handler: setSheetData(prev => next) and the [sheetData] effect of
\* the re-render; an updater that returns prev causes no re-render
PanelEdit(name, args, next) ==
    /\ sheetData' = next
    /\ IF next = sheetData /\ name = "DeleteColumn"
       THEN UNCHANGED <<isFirstLoad, savingStatus, timers, debounceTimer,
                        timerSeq, saveCleanup, dirty, burst>>
       ELSE /\ SingleSaveEffect(isFirstLoad, next, attr, onSheetChange)
            /\ dirty' = TRUE
            /\ burst' = burst + 1
    /\ edits' = edits + 1
    /\ last' = Op(name)
    /\ call' = args
    /\ UNCHANGED <<variant, phase, attr, onSheetChange, hostStore, sheetIdValue,
                   multiVars, savedTimer, hostEvents, savedJson, hostOk, perm>>

\* click on "Add column"
PanelAddColumn ==
    /\ PanelOpen
    /\ \E now \in Clock :
          PanelEdit("AddColumn", [fn |-> "addColumn", now |-> now],
                    handleAddColumn(sheetData, now))

\* a header typed or a type chosen in a column row
PanelUpdateColumn ==
    /\ PanelOpen
    /\ \E i \in PanelIndices(Len(sheetData.columns.v)), changes \in ColumnChanges :
          LET colKey == Field(sheetData.columns.v[i + 1], "key")
          IN  PanelEdit("UpdateColumn", [fn |-> "updateColumn", colKey |-> colKey],
                        handleUpdateColumn(sheetData, colKey, changes))

\* click on the delete button of the column row at some index; a second
\* click on the button of the row just deleted arrives with the key of that
\* row (index -1: the row is gone)
PanelDeleteColumn ==
    /\ PanelOpen
    /\ LET cols  == sheetData.columns.v
           shown == {<<Field(cols[i + 1], "key"), i>> : i \in PanelIndices(Len(cols))}
           again == IF last.op = "DeleteColumn" THEN {<<call.colKey, -1>>} ELSE {}
       IN  \E click \in shown \cup again :
              PanelEdit("DeleteColumn",
                        [fn |-> "deleteColumn", colKey |-> click[1], index |-> click[2]],
                        handleDeleteColumn(sheetData, click[1]))

\* click on the up or down arrow of a column row
PanelReorderColumn ==
    /\ PanelOpen
    /\ LET n == Len(sheetData.columns.v)
       IN  \E index \in PanelIndices(n) : \E to \in Neighbours(index, n) :
              PanelEdit("ReorderColumn",
                        [fn |-> "reorderColumn", from |-> index, to |-> to],
                        handleReorderColumn(sheetData, index, to))

\* click on "Add row label"
PanelAddRow ==
    /\ PanelOpen
    /\ PanelEdit("AddRow", [fn |-> "addRow"], handleAddRow(sheetData))

\* a label typed in a row of the row panel
PanelUpdateRow ==
    /\ PanelOpen
    /\ \E rowIndex \in PanelIndices(Len(sheetData.rowLabels)) :
          PanelEdit("UpdateRow", [fn |-> "updateRow", rowIndex |-> rowIndex],
                    handleUpdateRow(sheetData, rowIndex, "Total"))

\* click on the delete button of a row label
PanelDeleteRow ==
    /\ PanelOpen
    /\ \E rowIndex \in PanelIndices(Len(sheetData.rowLabels)) :
          PanelEdit("DeleteRow", [fn |-> "deleteRow", rowIndex |-> rowIndex],
                    handleDeleteRow(sheetData, rowIndex))

\* click on the up or down arrow of a row label
PanelReorderRow ==
    /\ PanelOpen
    /\ LET n == Len(sheetData.rowLabels)
       IN  \E index \in PanelIndices(n) : \E to \in Neighbours(index, n) :
              PanelEdit("ReorderRow",
                        [fn |-> "reorderRow", from |-> index, to |-> to],
                        handleReorderRow(sheetData, index, to))

PanelNext ==
    \/ SingleMount
    \/ SingleCellChange
    \/ SingleDebounceFire
    \/ SavedFire
    \/ PanelAddColumn
    \/ PanelUpdateColumn
    \/ PanelDeleteColumn
    \/ PanelReorderColumn
    \/ PanelAddRow
    \/ PanelUpdateRow
    \/ PanelDeleteRow
    \/ PanelReorderRow

PanelSpec == PanelInit /\ [][PanelNext]_vars


\* the fields of a sheet other than the named one are the same in a and b
SameBut(a, b, field) ==
    \A f \in DOMAIN a \cup DOMAIN b :
        f # field => (f \in DOMAIN a /\ f \in DOMAIN b /\ a[f] = b[f])

\* the fields of a sheet other than columns and data are the same in a and b
SameButGrid(a, b) ==
    \A f \in (DOMAIN a \cup DOMAIN b) \ {"columns", "data"} :
        f \in DOMAIN a /\ f \in DOMAIN b /\ a[f] = b[f]

\* C24: addColumn appends exactly one column definition, of type text, and
\* exactly one null cell to the end of every grid row, and changes nothing
\* else: the row count, the existing cells, the existing column definitions,
\* rowLabels and cellMeta are unchanged, and the grid stays rectangular.
C24_AddColumnAppends ==
    [][last'.op = "AddColumn" =>
        LET cols  == sheetData.columns.v
            cols2 == sheetData'.columns.v
        IN  /\ Len(cols2) = Len(cols) + 1
            /\ SubSeq(cols2, 1, Len(cols)) = cols
            /\ Field(cols2[Len(cols2)], "type") = JStr("text")
            /\ Len(sheetData'.data) = Len(sheetData.data)
            /\ \A r \in 1..Len(sheetData.data) :
                  /\ sheetData'.data[r] = Append(sheetData.data[r], Null)
                  /\ Len(sheetData'.data[r]) = Len(sheetData'.data[1])
            /\ SameButGrid(sheetData, sheetData')
    ]_vars

\* a column was added to the sheet of two columns, three used rows and two
\* row labels
C24_Witness ==
    /\ last.op = "AddColumn"
    /\ hostStore = DocCols
    /\ Len(sheetData.columns.v) = 3
    /\ Len(sheetData.data[3]) = MIN_COLS + 1
    /\ sheetData.data[3][1] = "t"
    /\ sheetData.rowLabels = <<"R1", "R2">>

\* C25 (as the spec states it): deleteColumn(key), key being the key of the
\* column definition at index i, removes exactly that one column definition
\* and, in every row, exactly the cell at position i; when no column has
\* that key the sheet is unchanged.
C25_DeleteColumnExact ==
    [][last'.op = "DeleteColumn" =>
        IF findIndex(sheetData.columns.v, call'.colKey) = -1
        THEN sheetData' = sheetData
        ELSE /\ sheetData'.columns.v = RemoveAt(sheetData.columns.v, call'.index)
             /\ Len(sheetData'.data) = Len(sheetData.data)
             /\ \A r \in 1..Len(sheetData.data) :
                   sheetData'.data[r] = RemoveAt(sheetData.data[r], call'.index)
             /\ SameButGrid(sheetData, sheetData')
    ]_vars

\* the index a move of fromIndex to toIndex fills position j from
MoveSource(j, fromIndex, toIndex) ==
    IF j = toIndex THEN fromIndex
    ELSE IF fromIndex < toIndex /\ fromIndex <= j /\ j < toIndex THEN j + 1
    ELSE IF toIndex < fromIndex /\ toIndex < j /\ j <= fromIndex THEN j - 1
    ELSE j

\* row[j], a row read past its end being an empty cell
CellOrEmpty(row, j) == IF j + 1 \in DOMAIN row THEN row[j + 1] ELSE Null

\* two cells hold the same value, all empty cells being alike
SameCell(a, b) == a = b \/ (isEmpty(a) /\ isEmpty(b))

\* C26 (as the spec states it): reorderColumn(from, to) with both indices
\* below the number of column definitions applies the same move to the
\* column list and to the cells of every grid row: what was at from is at
\* to, the others keep their relative order, nothing is lost or duplicated.
C26_ReorderColumnMoves ==
    [][last'.op = "ReorderColumn" =>
        LET cols  == sheetData.columns.v
            cols2 == sheetData'.columns.v
            from  == call'.from
            to    == call'.to
        IN  /\ Len(cols2) = Len(cols)
            /\ \A j \in 0..(Len(cols) - 1) :
                  cols2[j + 1] = cols[MoveSource(j, from, to) + 1]
            /\ Len(sheetData'.data) = Len(sheetData.data)
            /\ \A r \in 1..Len(sheetData.data) :
                  \A j \in 0..(Max(Len(cols), Len(sheetData.data[r])) - 1) :
                      SameCell(CellOrEmpty(sheetData'.data[r], j),
                               CellOrEmpty(sheetData.data[r], MoveSource(j, from, to)))
            /\ SameButGrid(sheetData, sheetData')
    ]_vars

\* C27: the row-label operations (add, update, delete, reorder) change
\* rowLabels only: grid data, columns, cellMeta, colWidths, rowHeights and
\* mergedCells are the same after the operation as before it.
C27_RowLabelOpsOnlyLabels ==
    [][last'.op \in {"AddRow", "UpdateRow", "DeleteRow", "ReorderRow"} =>
        SameBut(sheetData, sheetData', "rowLabels")
    ]_vars

\* the first of the two row labels was deleted from the sheet with columns,
\* cell formats and three used rows
C27_Witness ==
    /\ last.op = "DeleteRow"
    /\ hostStore = DocCols
    /\ sheetData.rowLabels = <<"R2">>
    /\ sheetData.data[3][1] = "t"
    /\ Len(sheetData.columns.v) = 2

\* C28 (as the spec states it): row labels limit the visible row count only;
\* the stored grid keeps all rows, so after a cell edit made while labels
\* are set every grid row at an index from len(rowLabels) on still holds its
\* values.
C28_HiddenRowsKept ==
    [][(last'.op = "CellChange" /\ Len(sheetData.rowLabels) > 0) =>
        \A r \in (Len(sheetData.rowLabels) + 1)..Len(sheetData.data) :
            /\ r \in DOMAIN sheetData'.data
            /\ sheetData'.data[r] = sheetData.data[r]
    ]_vars


\* C29 (as the spec states it): the last remaining sheet cannot be deleted.
\* Once the model holds at least one sheet, no sequence of tab deletes,
\* adds, renames and tab switches brings the sheet count to zero.
C29_NeverZeroSheets ==
    [][Len(sheets) >= 1 => Len(sheets') >= 1]_vars


\* C30 (as the spec states it): multi-sheet variant: whenever a save cycle is
\* pending (status "saving", the debounce timer scheduled) the local-edits
\* guard is set.
C30_SavingImpliesGuard ==
    (variant = "multi" /\ savingStatus = "saving" /\ DebounceTimers # {}) =>
        hasPendingEdits


\* C31 (as the spec states it): the status never stays pending forever. In
\* every state where the status is "saving" and the component is mounted a
\* debounce timer is scheduled, also when the sheetId changes or the model is
\* reloaded while a save cycle is pending.
C31_SavingHasTimer ==
    (phase = "mounted" /\ savingStatus = "saving") => DebounceTimers # {}

\* C32 (as the spec states it): whenever a debounce timer is scheduled the
\* status is "saving": the saved-display timer of an earlier write sequence
\* cannot set the status to idle while a newer save cycle is pending.
C32_TimerImpliesSaving ==
    DebounceTimers # {} => savingStatus = "saving"


\* C33 (as the spec states it): multi-sheet variant: a host-driven reload
\* that is accepted after the first load does not itself start a save cycle;
\* no debounce timer is scheduled by it, so no attribute write and no commit
\* follow from it.
C33_ReloadStartsNoSave ==
    [][(variant = "multi" /\ ~isInitialLoad
          /\ last'.op = "HostRefresh" /\ last'.loaded) =>
        /\ DebounceTimers' \subseteq DebounceTimers
        /\ savingStatus' = savingStatus
    ]_vars


\* C34 (as the spec states it): single-sheet variant: a write sequence never
\* overwrites a host attribute value the widget has not loaded. Taken where
\* no local edit was made at all: what a write sequence puts over the stored
\* value is the serialization of the model parsed from that stored value.
C34_WritesWhatWasLoaded ==
    [][(variant = "single" /\ edits = 0
          /\ last'.op = "DebounceFire" /\ last'.wrote) =>
        last'.json = serializeSheet(parseSheetJson(hostStore, DEFAULT_ROW_COUNT))
    ]_vars


\* the fields every persisted sheet has, and those a sheet of a workbook adds
DocumentFields == {"data", "columns", "cellMeta", "colWidths", "rowHeights", "mergedCells"}
WorkbookFields == {"sheetId", "sheetName", "orderIndex", "isEditable"}

\* C35 (as the spec states it): the persisted document is exhaustive. Every
\* serialized sheet object has all of data, columns, cellMeta, colWidths,
\* rowHeights and mergedCells, and in the multi-sheet variant sheetId,
\* sheetName, orderIndex and isEditable as well, each present even when empty.
C35_DocumentExhaustive ==
    /\ call.fn = "serializeSheet" => DocumentFields \subseteq DOMAIN call.out.val.v
    /\ call.fn = "serializeSheets" =>
           \A i \in 1..Len(call.out.val.v) :
               DocumentFields \cup WorkbookFields \subseteq DOMAIN call.out.val.v[i].v


\* C36 (as the spec states it): deleteSheet with an id that no sheet has is a
\* no-op. The collection returned equals the one given in every field of
\* every sheet, orderIndex included, for every collection parseSheets can
\* return.
C36_DeleteAbsentIsNoOp ==
    [][(call'.fn = "deleteSheet" /\ call'.sheetId \notin IdsOf(call.out)) =>
        call'.out = call.out
    ]_vars


\* the column definitions of a sheet have pairwise distinct keys
DistinctKeys(sheet) ==
    \A i, j \in 1..Len(sheet.columns.v) :
        i # j => Field(sheet.columns.v[i], "key") # Field(sheet.columns.v[j], "key")

\* C37 (as the spec states it): column keys are unique and stable. Column
\* definitions with pairwise distinct keys have pairwise distinct keys after
\* every addColumn, updateColumn, deleteColumn and reorderColumn, two
\* addColumn calls at the same clock value included.
C37_ColumnKeysUnique ==
    [][(last'.op \in {"AddColumn", "UpdateColumn", "DeleteColumn", "ReorderColumn"}
          /\ DistinctKeys(sheetData)) =>
        DistinctKeys(sheetData')
    ]_vars


\* C38 (as the spec states it): multi-sheet variant: after any sequence of
\* host loads, add-sheet, delete-sheet and tab-change events activeSheetIndex
\* is a valid index of the sheets array whenever the array is not empty, so
\* the active sheet is never null while sheets exist.
C38_ActiveIndexValid ==
    (variant = "multi" /\ Len(sheets) > 0) =>
        (0 <= activeSheetIndex /\ activeSheetIndex <= Len(sheets) - 1)

\* C39 (as the spec states it): multi-sheet variant: after the add-sheet
\* handler ran on a workbook of n sheets the active sheet is the sheet just
\* appended, activeSheetIndex = n.
C39_AddedSheetIsActive ==
    [][last'.op = "AddSheet" => activeSheetIndex' = Len(sheets)]_vars

====
